---- MODULE Spec2Model ----
(***************************************************************************)
(* A model of the CGNS/Python tree utilities of pyCGNS                     *)
(* (PATternMaker/CGNS/PAT/cgnsutils.py): the node heap, the lifecycle      *)
(* operations (nodeCreate, setChild, nodeCopy, nodeDelete, setValue), the  *)
(* tree navigator (getNodeByPath, getPathFromNode, getParentFromNode), the *)
(* query engine (getAllPaths, getAllNodesByTypeList/Set, the filters) and  *)
(* the path algebra (getPathNormalize, getPathToList, getPathAncestor...). *)
(*                                                                         *)
(* Python strings are sequences of one-character strings, so that split,   *)
(* join, normpath and the string sort are computed character by character. *)
(* Python lists and numpy arrays are heap objects with an identity: a node *)
(* holds the index of its children list and the index of its array.        *)
(***************************************************************************)
EXTENDS Integers, Sequences, FiniteSets, TLC

VARIABLES nodes, lists, arrs, last, nmut, ncopy, pth

vars == <<nodes, lists, arrs, last, nmut, ncopy, pth>>

(***************************************************************************)
(* Bounds of the model                                                     *)
(***************************************************************************)
MaxNodes  == 3
MaxMut  == 1
MaxCopies == 1
MaxLen    == 5

(***************************************************************************)
(* Python strings                                                          *)
(***************************************************************************)
Slash     == "/"
Dot       == "."
Backslash == "\\"
\* the backquote character, which a TLA+ string cannot hold
Backquote == "<backquote>"

CGNSTree_s      == <<"C","G","N","S","T","r","e","e">>
CGNSHDF5ROOT_s  == <<"H","D","F","5"," ","M","o","t","h","e","r","N","o","d","e">>
CGNSTree_ts     == "CGNSTree_t"
CGNSBase_ts     == "CGNSBase_t"
Zone_ts         == "Zone_t"
CGNSLibraryVersion_s  == <<"C", "G", "N", "S", "L", "i", "b", "r", "a", "r", "y", "V", "e", "r", "s", "i", "o", "n">>
CGNSLibraryVersion_ts == "CGNSLibraryVersion_t"

\* None where a string is expected, and the RuntimeError of a recursion that
\* exceeds the interpreter's recursion limit
PNone  == <<"#None">>
RecErr == <<"#RecursionError">>

\* ord() of the characters the model uses
Ord(c) ==
  CASE c = " "  -> 32 [] c = "#"  -> 35 [] c = "."  -> 46 [] c = "/"  -> 47
    [] c = "5"  -> 53 [] c = "A"  -> 65 [] c = "B"  -> 66 [] c = "C"  -> 67
    [] c = "D"  -> 68 [] c = "F"  -> 70 [] c = "G"  -> 71 [] c = "H"  -> 72
    [] c = "M"  -> 77 [] c = "N"  -> 78 [] c = "S"  -> 83 [] c = "T"  -> 84
    [] c = "\\" -> 92 [] c = "a"  -> 97 [] c = "d"  -> 100 [] c = "e" -> 101
    [] c = "h"  -> 104 [] c = "o" -> 111 [] c = "r" -> 114 [] c = "t" -> 116
    [] OTHER    -> 127

\* s < t for two Python strings
RECURSIVE StrLess(_,_)
StrLess(s, t) ==
  IF t = <<>> THEN FALSE
  ELSE IF s = <<>> THEN TRUE
  ELSE IF Ord(Head(s)) < Ord(Head(t)) THEN TRUE
  ELSE IF Ord(Head(s)) > Ord(Head(t)) THEN FALSE
  ELSE StrLess(Tail(s), Tail(t))

\* s.split('/')
RECURSIVE SplitAcc(_,_,_)
SplitAcc(s, cur, acc) ==
  IF s = <<>> THEN Append(acc, cur)
  ELSE IF Head(s) = Slash THEN SplitAcc(Tail(s), <<>>, Append(acc, cur))
  ELSE SplitAcc(Tail(s), Append(cur, Head(s)), acc)

Split(s) == SplitAcc(s, <<>>, <<>>)

\* '/'.join(l)
RECURSIVE Join(_)
Join(l) ==
  IF l = <<>> THEN <<>>
  ELSE IF Len(l) = 1 THEN l[1]
  ELSE l[1] \o <<Slash>> \o Join(Tail(l))

\* s.replace('\\','/')
ReplaceBackslash(s) == [i \in 1..Len(s) |-> IF s[i] = Backslash THEN Slash ELSE s[i]]

StartsWith(s, pre) == Len(s) >= Len(pre) /\ SubSeq(s, 1, Len(pre)) = pre

(***************************************************************************)
(* posixpath.normpath, as os.path.normpath is on the platform of the model *)
(***************************************************************************)
DotDot == <<Dot, Dot>>

RECURSIVE NormComps(_,_,_)
NormComps(comps, new, initial) ==
  IF comps = <<>> THEN new
  ELSE LET comp == Head(comps) IN
    IF comp = <<>> \/ comp = <<Dot>> THEN NormComps(Tail(comps), new, initial)
    ELSE IF \/ comp # DotDot
            \/ (initial = 0 /\ new = <<>>)
            \/ (new # <<>> /\ new[Len(new)] = DotDot)
         THEN NormComps(Tail(comps), Append(new, comp), initial)
    ELSE IF new # <<>>
         THEN NormComps(Tail(comps), SubSeq(new, 1, Len(new) - 1), initial)
    ELSE NormComps(Tail(comps), new, initial)

normpath(path) ==
  IF path = <<>> THEN <<Dot>>
  ELSE LET initial == IF ~StartsWith(path, <<Slash>>) THEN 0
                      ELSE IF StartsWith(path, <<Slash, Slash>>)
                              /\ ~StartsWith(path, <<Slash, Slash, Slash>>) THEN 2
                      ELSE 1
           joined  == Join(NormComps(Split(path), <<>>, initial))
           res     == [i \in 1..initial |-> Slash] \o joined
       IN IF res = <<>> THEN <<Dot>> ELSE res

\* getPathNormalize(path)
getPathNormalize(path) ==
  LET p1 == IF path # <<>> /\ (path[1] = Slash \/ path[1] = Backslash)
            THEN <<Slash, Slash, Slash>> \o path ELSE path
  IN ReplaceBackslash(normpath(p1))

(***************************************************************************)
(* The node heap.  A node is the Python list [name, value, children, type] *)
(* : value is 0 (None) or the index of a value object in arrs, kids is the *)
(* index of a list object in lists, whose elements are node indexes.       *)
(***************************************************************************)
NaN == -1

Kids(n)  == lists[nodes[n].kids]
NodeIds  == 1..Len(nodes)

\* type(v)==numpy.ndarray, for a value index v
IsNdarray(v) == v # 0 /\ arrs[v].dtype # "pystr"

\* type(vA)==type(vB)
SameValueClass(vA, vB) ==
  IF vA = 0 \/ vB = 0 THEN vA = vB
  ELSE (arrs[vA].dtype = "pystr") = (arrs[vB].dtype = "pystr")

\* string.letters + string.digits + string.punctuation + ' ' without '/'
Letters == {"a","b","c","d","e","f","g","h","i","j","k","l","m","n","o","p","q",
            "r","s","t","u","v","w","x","y","z","A","B","C","D","E","F","G","H",
            "I","J","K","L","M","N","O","P","Q","R","S","T","U","V","W","X","Y","Z"}
Digits  == {"0","1","2","3","4","5","6","7","8","9"}
Punctuation == {"!","\"","#","$","%","&","'","(",")","*","+",",","-",".","/",":",
                ";","<","=",">","?","@","[","\\","]","^","_",Backquote,"{","|","}","~"}
NameChars == (Letters \cup Digits \cup Punctuation \cup {" "}) \ {Slash}

MaxNameLen == 32

\* checkName without the test of the two consecutive spaces
checkName_noDoubleSpace(name, strict) ==
  IF name = PNone THEN FALSE
  ELSE IF Len(name) = 0 THEN FALSE
  ELSE IF ~(\A i \in 1..Len(name) : name[i] \in NameChars) THEN FALSE
  ELSE IF Len(name) > MaxNameLen THEN FALSE
  ELSE IF name = <<Dot>> \/ name = <<Dot, Dot>> THEN FALSE
  ELSE IF \A i \in 1..Len(name) : name[i] = " " THEN FALSE
  ELSE IF strict THEN
    IF name[1] = " " \/ name[Len(name)] = " " THEN FALSE
    ELSE IF \E i \in 1..Len(name) : name[i] \in {"\"", "\\", "'", Backquote} THEN FALSE
    ELSE TRUE
  ELSE TRUE

\* checkName(name, strict): PNone stands for a name that is no string
checkName(name, strict) ==
  IF name = PNone THEN FALSE
  ELSE IF Len(name) = 0 THEN FALSE
  ELSE IF ~(\A i \in 1..Len(name) : name[i] \in NameChars) THEN FALSE
  ELSE IF Len(name) > MaxNameLen THEN FALSE
  ELSE IF name = <<Dot>> \/ name = DotDot THEN FALSE
  ELSE IF \A i \in 1..Len(name) : name[i] = " " THEN FALSE
  ELSE IF strict THEN
    IF name[1] = " " \/ name[Len(name)] = " " THEN FALSE
    ELSE IF \E i \in 1..Len(name) : name[i] \in {"\"", "\\", "'", Backquote} THEN FALSE
    ELSE IF \E i \in 1..(Len(name) - 1) : name[i] = " " /\ name[i + 1] = " " THEN FALSE
    ELSE TRUE
  ELSE TRUE

\* checkPath(path)
checkPath(path) ==
  IF path = PNone \/ path = <<>> THEN FALSE
  ELSE LET p == IF path[1] = Slash THEN Tail(path) ELSE path
           l == Split(p)
       IN \A i \in 1..Len(l) : checkName(l[i], FALSE)

\* checkNode(node), for a node object [name, value, children, type]
checkNodeRec(n) == n.value = 0 \/ IsNdarray(n.value)

checkNode(n) == checkNodeRec(nodes[n])

\* getValueType that takes every array for an array of integers
getValueTypeRec_anyArray(a) ==
  IF a.dtype = "pystr" THEN "None" ELSE "Integer"

\* getValueType(v): the CGNS data type name, "None" when not recognized
getValueTypeRec(a) ==
  IF a.dtype = "pystr" THEN "None"
  ELSE IF a.dtype = "S" THEN "Character"
  ELSE IF a.dtype = "f" THEN "RealSingle"
  ELSE IF a.dtype = "d" THEN "RealDouble"
  ELSE IF a.dtype = "i" THEN "Integer"
  ELSE IF a.dtype = "l" THEN "LongInteger"
  ELSE "None"

\* checkArray(a, orNone=True), for a value object (NoArray is None)
NoArray == [dtype |-> "none", shape |-> <<>>, fortran |-> FALSE, data |-> <<>>]

checkArrayRec(a) ==
  IF a = NoArray THEN TRUE
  ELSE IF a.dtype = "pystr" THEN FALSE
  ELSE IF getValueTypeRec(a) = "None" THEN FALSE
  ELSE IF Len(a.shape) > 1 /\ ~a.fortran THEN FALSE
  ELSE TRUE

\* CK.cgnstypes, the CGNS/SIDS types the model uses
cgnstypes == {CGNSTree_ts, CGNSBase_ts, Zone_ts, CGNSLibraryVersion_ts}

\* checkType(node, [], '')
checkNodeType(ty) == ty \in cgnstypes

\* checkNodeCompliant without the check of the type
checkNodeCompliant_noType(name, a, ty) ==
  /\ (a = NoArray \/ a.dtype # "pystr")
  /\ checkName(name, FALSE)
  /\ checkArrayRec(a)

\* checkNodeCompliant(node): structure, name, array, type
checkNodeCompliant(name, a, ty) ==
  /\ (a = NoArray \/ a.dtype # "pystr")
  /\ checkName(name, FALSE)
  /\ checkArrayRec(a)
  /\ checkNodeType(ty)

\* NPY.all(NPY.equal(vA,vB)) for two arrays of the same shape
AllEqual(dA, dB) ==
  \A i \in 1..Len(dA) : dA[i] = dB[i] /\ dA[i] # NaN

\* checkSameValue(nodeA, nodeB)
checkSameValue(nA, nB) ==
  LET vA == nodes[nA].value
      vB == nodes[nB].value
  IN IF vA = 0 /\ vB = 0 THEN TRUE
     ELSE IF vA = 0 \/ vB = 0 THEN FALSE
     ELSE IF IsNdarray(vA) # IsNdarray(vB) THEN FALSE
     ELSE IF IsNdarray(vA) THEN
       IF arrs[vA].dtype # arrs[vB].dtype THEN FALSE
       ELSE IF arrs[vA].shape # arrs[vB].shape THEN FALSE
       ELSE AllEqual(arrs[vA].data, arrs[vB].data)
     ELSE arrs[vA].data = arrs[vB].data

\* sameNode(nodeA, nodeB) = checkSameNode(nodeA, nodeB)
sameNode(nA, nB) ==
  IF ~(checkNode(nA) /\ checkNode(nB)) THEN FALSE
  ELSE IF nodes[nA].name # nodes[nB].name THEN FALSE
  ELSE IF nodes[nA].type # nodes[nB].type THEN FALSE
  ELSE IF ~SameValueClass(nodes[nA].value, nodes[nB].value) THEN FALSE
  ELSE IF ~checkSameValue(nA, nB) THEN FALSE
  ELSE IF Len(Kids(nA)) # Len(Kids(nB)) THEN FALSE
  ELSE TRUE

checkSameNode(nA, nB) == sameNode(nA, nB)

\* checkDuplicatedName(parent, name): TRUE when no child of parent has the
\* name, and for the parent None
checkDuplicatedName(parent, name) ==
  IF parent = 0 THEN TRUE
  ELSE \A i \in 1..Len(Kids(parent)) : nodes[Kids(parent)[i]].name # name

\* checkHasChildName(parent, name)
checkHasChildName(parent, name) == ~checkDuplicatedName(parent, name)

\* the decimal digits, in order
DigitSeq == <<"0", "1", "2", "3", "4", "5", "6", "7", "8", "9">>

\* '%.d'%count for count >= 1: the decimal digits of count
RECURSIVE FormatD(_)
FormatD(count) ==
  IF count < 10 THEN <<DigitSeq[count + 1]>>
  ELSE FormatD(count \div 10) \o <<DigitSeq[(count % 10) + 1]>>

\* '%s#%.d'%(name,count)
FormatName(name, count) == name \o <<"#">> \o FormatD(count)

\* the while loop of checkUniqueChildName
RECURSIVE checkUniqueLoop(_,_,_)
checkUniqueLoop(parent, name, count) ==
  IF checkHasChildName(parent, FormatName(name, count))
  THEN checkUniqueLoop(parent, name, count + 1)
  ELSE FormatName(name, count)

\* the cgnsNameError 102 of checkDuplicatedName with dienow
NameErr == <<"#cgnsNameError">>

\* checkUniqueChildName that takes the first suffix without looking
checkUniqueChildName_first(parent, name, dienow) ==
  IF checkDuplicatedName(parent, name) THEN name
  ELSE IF dienow THEN NameErr
  ELSE FormatName(name, 1)

\* checkUniqueChildName(parent, name, dienow)
checkUniqueChildName(parent, name, dienow) ==
  IF checkDuplicatedName(parent, name) THEN name
  ELSE IF dienow THEN NameErr
  ELSE checkUniqueLoop(parent, name, 1)

\* isRootNode(node, legacy, version=False, dienow), over the children from the
\* i-th on: "True", "False", or "Raise" for the cgnsNodeError
RECURSIVE isRootLoop(_,_,_,_)
isRootLoop(ks, i, versionfound, dienow) ==
  IF i > Len(ks) THEN "True"
  ELSE IF ~checkNode(ks[i]) THEN (IF dienow THEN "Raise" ELSE "False")
  ELSE IF nodes[ks[i]].name = CGNSLibraryVersion_s
          /\ nodes[ks[i]].type = CGNSLibraryVersion_ts
  THEN IF versionfound /\ dienow THEN "Raise"
       ELSE isRootLoop(ks, i + 1, TRUE, dienow)
  ELSE IF nodes[ks[i]].type # CGNSBase_ts
  THEN (IF dienow THEN "Raise" ELSE "False")
  ELSE isRootLoop(ks, i + 1, versionfound, dienow)

isRootNode(node, legacy, dienow) ==
  IF ~checkNode(node) THEN (IF dienow THEN "Raise" ELSE "False")
  ELSE IF ~legacy /\ nodes[node].type # CGNSTree_ts THEN "False"
  ELSE isRootLoop(Kids(node), 1, FALSE, dienow)

(***************************************************************************)
(* Path algebra                                                            *)
(***************************************************************************)
\* the IndexError of an index into an empty string or list
PRaise == <<"#IndexError">>
LRaise == <<PRaise>>

\* getPathNoRoot(path), from the split normal path on: lp=path.split('/')
noRootList(lp0) ==
  IF lp0[1] \in {CGNSHDF5ROOT_s, CGNSTree_s} THEN Tail(lp0) ELSE lp0

\* getPathNoRoot(path), from the list without its first root name on; lp[0]
\* of an empty list is an IndexError
noRootJoin(lp1) ==
  IF lp1 = <<>> THEN PRaise
  ELSE IF lp1[1] = <<>> /\ Len(lp1) > 1 /\ lp1[2] \in {CGNSHDF5ROOT_s, CGNSTree_s}
  THEN Join(<<lp1[1]>> \o SubSeq(lp1, 3, Len(lp1)))
  ELSE Join(lp1)

\* getPathNoRoot(path), from the normal path on
noRootNormal(p) ==
  IF p = <<Slash>> THEN p ELSE noRootJoin(noRootList(Split(p)))

\* getPathNoRoot(path)
getPathNoRoot(path) ==
  IF path = PNone \/ path = <<>> THEN <<Slash>>
  ELSE noRootNormal(getPathNormalize(path))

\* getPathToList, from the path without its first slash on
toListSplit(p3) ==
  IF p3 = <<Slash>> \/ p3 = <<>> THEN <<>> ELSE Split(p3)

\* getPathToList, from the path without its root on; path[0] of an empty
\* string is an IndexError
toListFirst(p2, nofirst) ==
  IF p2 = PRaise THEN LRaise
  ELSE IF nofirst /\ p2 = <<>> THEN LRaise
  ELSE toListSplit(IF nofirst /\ p2[1] = Slash THEN Tail(p2) ELSE p2)

\* getPathToList, from the normal path on
toListNormal(p1, nofirst, noroot) ==
  IF noroot THEN toListFirst(getPathNoRoot(p1), nofirst)
  ELSE toListFirst(p1, nofirst)

\* getPathToList(path, nofirst, noroot)
getPathToList(path, nofirst, noroot) ==
  IF path = PNone THEN <<>>
  ELSE IF Len(path) = 0 THEN <<>>
  ELSE toListNormal(getPathNormalize(path), nofirst, noroot)

\* getPathAncestor: the ancestor one level up, from the list of the path
ancestorOfList(lp) ==
  IF lp = LRaise THEN PRaise
  ELSE IF Len(lp) = 2 /\ lp[1] = <<>> THEN <<Slash>>
  ELSE IF Len(lp) > 1 THEN Join(SubSeq(lp, 1, Len(lp) - 1))
  ELSE IF Len(lp) = 1 THEN <<Slash>>
  ELSE PNone

\* getPathAncestor that goes one level up whatever the level asked for
getPathAncestor_oneLevel(path, level, noroot) ==
  IF level = 0 THEN path
  ELSE ancestorOfList(getPathToList(path, FALSE, noroot))

\* getPathAncestor(path, level, noroot)
RECURSIVE getPathAncestor(_,_,_)
ancestorAtLevel(ancestor, path, level) ==
  IF ancestor = PRaise THEN PRaise
  ELSE IF level = 0 THEN path
  ELSE IF level > 1 THEN getPathAncestor(ancestor, level - 1, TRUE)
  ELSE ancestor

getPathAncestor(path, level, noroot) ==
  ancestorAtLevel(ancestorOfList(getPathToList(path, FALSE, noroot)), path, level)

\* getPathLeaf, from the list of the path
leafOfList(lp) ==
  IF lp = LRaise THEN PRaise
  ELSE IF Len(lp) > 0 THEN lp[Len(lp)] ELSE <<>>

\* getPathLeaf(path)
getPathLeaf(path) == leafOfList(getPathToList(path, FALSE, TRUE))

\* hasSameRootPath(pathroot, pathtocompare), from the two lists on
sameRootLists(l1, l2) ==
  IF l1 = LRaise \/ l2 = LRaise THEN "Raise"
  ELSE IF Len(l1) > Len(l2) THEN "False"
  ELSE IF \E i \in 1..Len(l1) : l1[i] # l2[i] THEN "False"
  ELSE "True"

\* hasSameRootPath that compares the two strings
hasSameRootPath_asString(pathroot, pathtocompare) ==
  IF StartsWith(pathtocompare, pathroot) THEN "True" ELSE "False"

\* hasSameRootPath(pathroot, pathtocompare): "True", "False", or "Raise" for
\* the IndexError of getPathToList
hasSameRootPath(pathroot, pathtocompare) ==
  sameRootLists(getPathToList(pathroot, FALSE, TRUE),
                getPathToList(pathtocompare, FALSE, TRUE))

\* one turn of the loop of getPathListCommonAncestor over lp: the new t, from
\* r = t and the list p
commonStep(r, p, m) ==
  IF \E n \in 1..m : p[n] # r[n]
  THEN SubSeq(r, 1, (CHOOSE n \in 1..m : p[n] # r[n] /\ \A h \in 1..(n - 1) : p[h] = r[h]) - 1)
  ELSE IF m = 0 THEN (IF r = <<>> THEN <<>> ELSE <<r[1]>>)
  ELSE SubSeq(r, 1, m)

\* the loop of getPathListCommonAncestor over lp, from the i-th list on
RECURSIVE commonLoop(_,_,_)
commonLoop(lp, i, t) ==
  IF i > Len(lp) THEN t
  ELSE commonLoop(lp, i + 1,
                  commonStep(t, lp[i], IF Len(lp[i]) < Len(t) THEN Len(lp[i]) ELSE Len(t)))

\* the end of getPathListCommonAncestor: '/'.join(['']+t), or '/'
commonJoin(t) == IF t # <<>> THEN Join(<< <<>> >> \o t) ELSE <<Slash>>

\* the first loop of getPathListCommonAncestor, from the i-th path on, and
\* what follows it
RECURSIVE commonCollect(_,_,_)
commonNext(pathlist, i, lp, l) ==
  IF l = LRaise THEN PRaise ELSE commonCollect(pathlist, i + 1, Append(lp, l))

commonCollect(pathlist, i, lp) ==
  IF i > Len(pathlist) THEN commonJoin(commonLoop(lp, 1, lp[1]))
  ELSE IF pathlist[i] = <<Slash>> THEN <<Slash>>
  ELSE commonNext(pathlist, i, lp, getPathToList(pathlist[i], TRUE, TRUE))

\* getPathListCommonAncestor(pathlist)
getPathListCommonAncestor(pathlist) ==
  IF Len(pathlist) = 0 THEN <<Slash>>
  ELSE IF Len(pathlist) = 1 THEN pathlist[1]
  ELSE commonCollect(pathlist, 1, <<>>)

(***************************************************************************)
(* Tree navigator                                                          *)
(***************************************************************************)
\* getNodeFromPath(path, node), over the children list of node; 0 is the -1
\* the caller turns into None
RECURSIVE getNodeFromPath(_,_)
getNodeFromPath(lpath, kids) ==
  LET hits == {i \in 1..Len(kids) : nodes[kids[i]].name = lpath[1]} IN
  IF hits = {} THEN 0
  ELSE LET c == kids[CHOOSE i \in hits : \A j \in hits : i <= j] IN
       IF Len(lpath) = 1 THEN c
       ELSE getNodeFromPath(Tail(lpath), Kids(c))

\* getNodeByPath without the removal of the leading slash of the path
getNodeByPath_keepSlash(tree, path) ==
  IF path = <<Slash>> THEN tree
  ELSE IF ~checkPath(path) THEN 0
  ELSE LET lpath == Split(path)
       IN IF nodes[tree].type = CGNSTree_ts THEN
            IF lpath[1] = CGNSTree_s THEN
              IF Len(lpath) = 1 THEN tree
              ELSE getNodeFromPath(Tail(lpath), Kids(tree))
            ELSE getNodeFromPath(lpath, Kids(tree))
          ELSE getNodeFromPath(lpath, <<tree>>)

\* getNodeByPath without the removal of the root segment of the path
getNodeByPath_keepRoot(tree, path) ==
  IF path = <<Slash>> THEN tree
  ELSE IF ~checkPath(path) THEN 0
  ELSE LET p     == IF path[1] = Slash THEN Tail(path) ELSE path
           lpath == Split(p)
       IN IF nodes[tree].type = CGNSTree_ts
          THEN getNodeFromPath(lpath, Kids(tree))
          ELSE getNodeFromPath(lpath, <<tree>>)

\* getNodeByPath returning the tree where getNodeFromPath finds nothing
getNodeByPath_orTree(tree, path) ==
  IF path = <<Slash>> THEN tree
  ELSE IF ~checkPath(path) THEN 0
  ELSE LET p     == IF path[1] = Slash THEN Tail(path) ELSE path
           lpath == Split(p)
           n     == IF nodes[tree].type = CGNSTree_ts THEN
                      IF lpath[1] = CGNSTree_s THEN
                        IF Len(lpath) = 1 THEN tree
                        ELSE getNodeFromPath(Tail(lpath), Kids(tree))
                      ELSE getNodeFromPath(lpath, Kids(tree))
                    ELSE getNodeFromPath(lpath, <<tree>>)
       IN IF n = 0 THEN tree ELSE n

\* getNodeByPath(tree, path): a node index, 0 for None
getNodeByPath(tree, path) ==
  IF path = <<Slash>> THEN tree
  ELSE IF ~checkPath(path) THEN 0
  ELSE LET p     == IF path[1] = Slash THEN Tail(path) ELSE path
           lpath == Split(p)
       IN IF nodes[tree].type = CGNSTree_ts THEN
            IF lpath[1] = CGNSTree_s THEN
              IF Len(lpath) = 1 THEN tree
              ELSE getNodeFromPath(Tail(lpath), Kids(tree))
            ELSE getNodeFromPath(lpath, Kids(tree))
          ELSE getNodeFromPath(lpath, <<tree>>)

\* getPathFromNode(tree, node, path); the recursion is cut at depth d, where
\* the interpreter would raise its recursion error
RECURSIVE getPathFromNodeD(_,_,_,_), getPathFromNodeLoop(_,_,_,_,_)
getPathFromNodeD(tree, node, path, d) ==
  IF d = 0 THEN RecErr
  ELSE IF checkSameNode(node, tree) THEN path
  ELSE getPathFromNodeLoop(Kids(tree), 1, node, path, d)

getPathFromNodeLoop(ks, i, node, path, d) ==
  IF i > Len(ks) THEN PNone
  ELSE LET c == ks[i]
           p == getPathFromNodeD(c, node, path \o <<Slash>> \o nodes[c].name, d - 1)
       IN IF p = RecErr THEN RecErr
          ELSE IF p # PNone /\ p # <<>> THEN p
          ELSE getPathFromNodeLoop(ks, i + 1, node, path, d)

\* the depth no traversal of an acyclic heap reaches
Fuel == Len(nodes) + 1

getPathFromNode(tree, node) == getPathFromNodeD(tree, node, <<>>, Fuel)

\* getPathFromRoot(tree, node)
getPathFromRoot(tree, node) ==
  getPathFromNodeD(tree, node, <<Slash>> \o nodes[tree].name, Fuel)

\* getParentFromNode(tree, node): a node index, 0 for None, -1 for an error
getParentFromNode(tree, node) ==
  LET pn == getPathFromNode(tree, node) IN
  IF pn = RecErr THEN -1
  ELSE LET pp == getPathAncestor(pn, 1, TRUE) IN
       IF pp = PRaise THEN -1 ELSE getNodeByPath(tree, pp)

(***************************************************************************)
(* Query engine                                                            *)
(***************************************************************************)
LRec == <<RecErr>>

\* getPaths(tree, path, plist): the paths appended to plist, in the order of
\* the traversal
RECURSIVE getPathsLoop(_,_,_,_)
getPathsLoop(ks, i, path, d) ==
  IF i > Len(ks) THEN <<>>
  ELSE IF d = 0 THEN LRec
  ELSE LET c    == ks[i]
           pc   == path \o <<Slash>> \o nodes[c].name
           sub  == getPathsLoop(Kids(c), 1, pc, d - 1)
           rest == IF sub = LRec THEN LRec ELSE getPathsLoop(ks, i + 1, path, d)
       IN IF sub = LRec \/ rest = LRec THEN LRec
          ELSE <<pc>> \o sub \o rest

\* getPaths that does not go down from the children of the tree
getPaths_flat(tree) ==
  [i \in 1..Len(Kids(tree)) |-> <<Slash>> \o nodes[Kids(tree)[i]].name]

getPaths(tree) == getPathsLoop(Kids(tree), 1, <<>>, Fuel)

\* list.sort() on a list of strings
RECURSIVE Insert(_,_)
Insert(l, x) ==
  IF l = <<>> THEN <<x>>
  ELSE IF StrLess(x, Head(l)) THEN <<x>> \o l
  ELSE <<Head(l)>> \o Insert(Tail(l), x)

RECURSIVE Sort(_)
Sort(l) == IF l = <<>> THEN <<>> ELSE Insert(Sort(SubSeq(l, 1, Len(l) - 1)), l[Len(l)])

\* getAllPaths without its plist.sort()
getAllPaths_unsorted(tree) == getPaths(tree)

\* getAllPaths(tree)
getAllPaths(tree) ==
  LET plist == getPaths(tree) IN
  IF plist = LRec THEN LRec ELSE Sort(plist)

\* p.count('/')
CountSlash(p) == Cardinality({i \in 1..Len(p) : p[i] = Slash})

\* wsort(a, b) on the pairs (count, path): -1, 1 or 0
wsort(a, b) ==
  IF a[1] < b[1] THEN -1
  ELSE IF a[1] > b[1] THEN 1
  ELSE IF StrLess(a[2], b[2]) THEN -1
  ELSE IF StrLess(b[2], a[2]) THEN 1
  ELSE 0

\* s.sort(cmp=wsort): a stable sort
RECURSIVE InsertW(_,_)
InsertW(l, x) ==
  IF l = <<>> THEN <<x>>
  ELSE IF wsort(x, Head(l)) < 0 THEN <<x>> \o l
  ELSE <<Head(l)>> \o InsertW(Tail(l), x)

RECURSIVE SortW(_)
SortW(l) ==
  IF l = <<>> THEN <<>> ELSE InsertW(SortW(SubSeq(l, 1, Len(l) - 1)), l[Len(l)])

\* the width branch of getPathFullTree on the list r of getAllPaths
widthSorted(r) ==
  LET s == SortW([i \in 1..Len(r) |-> <<CountSlash(r[i]), r[i]>>]) IN
  [i \in 1..Len(s) |-> s[i][2]]

\* getPathFullTree that leaves the list of getAllPaths as it is
getPathFullTree_depthFirst(tree, width) == getAllPaths(tree)

\* getPathFullTree(tree, width)
getPathFullTree(tree, width) ==
  IF getAllPaths(tree) = LRec THEN LRec
  ELSE IF width THEN widthSorted(getAllPaths(tree))
  ELSE getAllPaths(tree)

\* the paths of lpth that split into d tokens, sorted
depthGroup(lpth, d) ==
  LET Test(p) == Len(Split(p)) = d IN Sort(SelectSeq(lpth, Test))

\* the last loop of getPathListAsWidthFirstIndex over the sorted keys K of
\* dpth: the entries [fileindex, count, path]
RECURSIVE widthIndexLoop(_,_,_,_)
widthIndexLoop(lpth, K, count, fileindex) ==
  IF K = {} THEN <<>>
  ELSE LET d   == CHOOSE x \in K : \A y \in K : x <= y
           grp == depthGroup(lpth, d)
       IN [j \in 1..Len(grp) |-> <<fileindex, count + j - 1, grp[j]>>]
          \o widthIndexLoop(lpth, K \ {d}, count + Len(grp), fileindex)

\* getPathListAsWidthFirstIndex(lpth, fileindex)
getPathListAsWidthFirstIndex(lpth, fileindex) ==
  widthIndexLoop(lpth, {Len(Split(lpth[i])) : i \in 1..Len(lpth)}, 0, fileindex)

\* getAllNodesAsWidthFirstIndex(tree, fileindex): the fileindex is not passed on
getAllNodesAsWidthFirstIndex(tree, fileindex) ==
  IF getAllPaths(tree) = LRec THEN LRec
  ELSE getPathListAsWidthFirstIndex(getAllPaths(tree), 1)

\* getAllNodesFromTypeSet(typelist, node, path, result)
RECURSIVE getAllNodesFromTypeSet(_,_,_,_,_)
getAllNodesFromTypeSet(typeset, ks, i, path, d) ==
  IF i > Len(ks) THEN <<>>
  ELSE IF d = 0 THEN LRec
  ELSE LET c    == ks[i]
           pc   == path \o <<Slash>> \o nodes[c].name
           hit  == IF nodes[c].type \in typeset THEN <<pc>> ELSE <<>>
           sub  == getAllNodesFromTypeSet(typeset, Kids(c), 1, pc, d - 1)
           rest == IF sub = LRec THEN LRec
                   ELSE getAllNodesFromTypeSet(typeset, ks, i + 1, path, d)
       IN IF sub = LRec \/ rest = LRec THEN LRec
          ELSE hit \o sub \o rest

\* the start of the paths of a query: "" for a CGNSTree_t tree, else its name
QueryStart(tree) ==
  IF nodes[tree].type = CGNSTree_ts THEN <<>> ELSE nodes[tree].name

\* getAllNodesByTypeSet that looks at the children of the tree only
getAllNodesByTypeSet_children(tree, typeset) ==
  LET ks == Kids(tree)
      F[i \in 0..Len(ks)] ==
        IF i = 0 THEN <<>>
        ELSE IF nodes[ks[i]].type \in typeset
        THEN Append(F[i - 1], QueryStart(tree) \o <<Slash>> \o nodes[ks[i]].name)
        ELSE F[i - 1]
  IN F[Len(ks)]

\* getAllNodesByTypeSet that starts every path at the empty string
getAllNodesByTypeSet_noStart(tree, typeset) ==
  getAllNodesFromTypeSet(typeset, Kids(tree), 1, <<>>, Fuel)

\* getAllNodesByTypeSet(tree, typeset)
getAllNodesByTypeSet(tree, typeset) ==
  getAllNodesFromTypeSet(typeset, Kids(tree), 1, QueryStart(tree), Fuel)

\* getAllNodesFromTypeList(typelist, node, path, result); typelist[0] of an
\* empty list is an IndexError
RECURSIVE getAllNodesFromTypeList(_,_,_,_)
getAllNodesFromTypeList(typelist, ks, i, path) ==
  IF i > Len(ks) THEN <<>>
  ELSE IF typelist = <<>> THEN LRaise
  ELSE LET c    == ks[i]
           pc   == path \o <<Slash>> \o nodes[c].name
           here == IF nodes[c].type # typelist[1] THEN <<>>
                   ELSE IF Len(typelist) = 1 THEN <<pc>>
                   ELSE getAllNodesFromTypeList(Tail(typelist), Kids(c), 1, pc)
           rest == getAllNodesFromTypeList(typelist, ks, i + 1, path)
       IN IF here = LRaise \/ rest = LRaise THEN LRaise ELSE here \o rest

\* getAllNodesByTypeList(tree, typelist): <<PNone>> stands for None
LNone == <<PNone>>

getAllNodesByTypeList(tree, typelist) ==
  IF typelist = <<>> THEN LRaise
  ELSE IF nodes[tree].type # typelist[1] THEN LNone
  ELSE getAllNodesFromTypeList(Tail(typelist), Kids(tree), 1, QueryStart(tree))

\* re.compile(restr).match(name), for the expressions made of characters,
\* of the dot and of the star: the match is anchored at the start only
RECURSIVE ReMatch(_,_)
ReMatch(restr, name) ==
  IF restr = <<>> THEN TRUE
  ELSE LET one == name # <<>> /\ (restr[1] = Dot \/ restr[1] = name[1]) IN
       IF Len(restr) >= 2 /\ restr[2] = "*"
       THEN \/ ReMatch(SubSeq(restr, 3, Len(restr)), name)
            \/ one /\ ReMatch(restr, Tail(name))
       ELSE one /\ ReMatch(Tail(restr), Tail(name))

\* getPathByNameFilter(tree, filter)
getPathByNameFilter(tree, filter) ==
  LET restrlist == Tail(Split(filter))
      lpth      == getAllPaths(tree)
      pls       == [i \in 1..Len(lpth) |-> getPathToList(lpth[i], TRUE, TRUE)]
      keep(i)   == /\ Len(pls[i]) = Len(restrlist)
                   /\ \A n \in 1..Len(restrlist) : ReMatch(restrlist[n], pls[i][n])
      RECURSIVE rpth(_)
      rpth(i)   == IF i > Len(lpth) THEN <<>>
                   ELSE (IF keep(i) THEN <<lpth[i]>> ELSE <<>>) \o rpth(i + 1)
  IN IF lpth = LRec THEN LRec
     ELSE IF \E i \in 1..Len(lpth) : pls[i] = LRaise THEN LRaise
     ELSE rpth(1)

\* the characters of the type strings, for the regular expressions
TypeChars(ty) ==
  CASE ty = CGNSTree_ts -> <<"C", "G", "N", "S", "T", "r", "e", "e", "_", "t">>
    [] ty = CGNSBase_ts -> <<"C", "G", "N", "S", "B", "a", "s", "e", "_", "t">>
    [] ty = Zone_ts -> <<"Z", "o", "n", "e", "_", "t">>
    [] ty = CGNSLibraryVersion_ts -> <<"C", "G", "N", "S", "L", "i", "b", "r", "a", "r", "y", "V", "e", "r", "s", "i", "o", "n", "_", "t">>
    [] OTHER -> <<"U", "n", "k", "n", "o", "w", "n", "_", "t">>

\* getTypeByPath(tree, path): PNone when the path is not found
getTypeByPath(tree, path) ==
  IF getNodeByPath(tree, path) \in NodeIds
  THEN TypeChars(nodes[getNodeByPath(tree, path)].type)
  ELSE PNone

\* list.reverse()
Reverse(l) == [i \in 1..Len(l) |-> l[Len(l) + 1 - i]]

\* the while loop of getPathAsTypes: the types from the path up to '/'
RECURSIVE typesLoop(_,_)
typesLoop(tree, path) ==
  IF path = <<Slash>> \/ path = PNone THEN <<>>
  ELSE IF path = PRaise THEN LRaise
  ELSE LET up == typesLoop(tree, getPathAncestor(path, 1, FALSE)) IN
       IF up = LRaise THEN LRaise ELSE <<getTypeByPath(tree, path)>> \o up

\* checkRootNode(tree, legacy=False)
checkRootNode(tree) == isRootNode(tree, FALSE, FALSE) = "True"

\* getPathAsTypes(tree, path, legacy=True), from the list of the path on
asTypesFrom(tree, path, p) ==
  LET prefix == p # LRaise /\ p # <<>> /\ p[1] # CGNSTree_s
      ltypes == typesLoop(tree, getPathNormalize(
                   IF prefix THEN <<Slash>> \o CGNSTree_s \o <<Slash>> \o path ELSE path))
  IN IF p = LRaise \/ ltypes = LRaise THEN LRaise
     ELSE IF ~prefix /\ Len(ltypes) > 0
     THEN Reverse(SubSeq(ltypes, 1, Len(ltypes) - 1))
     ELSE Reverse(ltypes)

\* getPathAsTypes(tree, path, legacy=True)
getPathAsTypes(tree, path) ==
  IF checkRootNode(tree)
  THEN asTypesFrom(tree, path, getPathToList(path, TRUE, FALSE))
  ELSE asTypesFrom(tree, path, <<>>)

\* the inner loop of the filters on one list pl: "keep", "skip", or "raise"
\* for the TypeError of a match on None
RECURSIVE filterLoop(_,_,_)
filterLoop(restrlist, pl, n) ==
  IF n > Len(restrlist) THEN "keep"
  ELSE IF pl[n] = PNone THEN "raise"
  ELSE IF ~ReMatch(restrlist[n], pl[n]) THEN "skip"
  ELSE filterLoop(restrlist, pl, n + 1)

\* the loop of getPathByTypeFilter over the paths of getAllPaths
RECURSIVE typeFilterLoop(_,_,_,_)
typeFilterLoop(tree, restrlist, lpth, i) ==
  IF i > Len(lpth) THEN <<>>
  ELSE LET lt   == getPathAsTypes(tree, lpth[i])
           pl   == IF lt = LRaise \/ lt = <<>> THEN lt ELSE Tail(lt)
           st   == IF pl = LRaise THEN "raise"
                   ELSE IF Len(pl) # Len(restrlist) THEN "skip"
                   ELSE filterLoop(restrlist, pl, 1)
           rest == IF st = "raise" THEN LRaise
                   ELSE typeFilterLoop(tree, restrlist, lpth, i + 1)
       IN IF rest = LRaise THEN LRaise
          ELSE IF st = "keep" THEN <<lpth[i]>> \o rest
          ELSE rest

\* getPathByTypeFilter(tree, filter)
getPathByTypeFilter(tree, filter) ==
  IF getAllPaths(tree) = LRec THEN LRec
  ELSE typeFilterLoop(tree, Tail(Split(filter)), getAllPaths(tree), 1)

(***************************************************************************)
(* Lifecycle operations                                                    *)
(***************************************************************************)
Heap == [nodes |-> nodes, lists |-> lists, arrs |-> arrs]

\* copyArray(a), for an array object: a new array of the same type, shape
\* and elements, in Fortran order when the source is
copyArray(a) ==
  IF a.fortran
  THEN [dtype |-> a.dtype, shape |-> a.shape, fortran |-> TRUE,  data |-> a.data]
  ELSE [dtype |-> a.dtype, shape |-> a.shape, fortran |-> FALSE, data |-> a.data]

\* copyNode(n, newname) and deepcopyNodeList(la) on the heap H: the heap
\* after the copy and the index of the new object (-1: recursion error)
RECURSIVE copyNode(_,_,_,_), deepcopyNodeList(_,_,_), deepcopyLoop(_,_,_,_,_)
copyNode(H, n, newname, d) ==
  IF d = 0 THEN [H |-> H, id |-> -1]
  ELSE LET v  == H.nodes[n].value
           H1 == IF v = 0 THEN H
                 ELSE [H EXCEPT !.arrs = Append(@, copyArray(H.arrs[v]))]
           v1 == IF v = 0 THEN 0 ELSE Len(H1.arrs)
           r  == deepcopyNodeList(H1, H.nodes[n].kids, d)
       IN IF r.id = -1 THEN [H |-> H, id |-> -1]
          ELSE [H  |-> [r.H EXCEPT !.nodes =
                          Append(@, [name |-> newname, value |-> v1,
                                     kids |-> r.id, type |-> H.nodes[n].type])],
                id |-> Len(r.H.nodes) + 1]

deepcopyNodeList(H, la, d) ==
  IF H.lists[la] = <<>> THEN [H |-> H, id |-> la]
  ELSE LET r == deepcopyLoop(H, H.lists[la], 1, <<>>, d)
       IN IF r.id = -1 THEN r
          ELSE [H |-> [r.H EXCEPT !.lists = Append(@, r.ra)], id |-> Len(r.H.lists) + 1]

deepcopyLoop(H, la, i, ra, d) ==
  IF i > Len(la) THEN [H |-> H, id |-> 0, ra |-> ra]
  ELSE LET c == copyNode(H, la[i], H.nodes[la[i]].name, d - 1)
       IN IF c.id = -1 THEN [H |-> H, id |-> -1, ra |-> ra]
          ELSE deepcopyLoop(c.H, la, i + 1, Append(ra, c.id), d)

\* removeChildByName(parent, name): the children list of parent afterwards
RemoveFirst(ks, name) ==
  LET hits == {i \in 1..Len(ks) : nodes[ks[i]].name = name} IN
  IF hits = {} THEN ks
  ELSE LET n == CHOOSE i \in hits : \A j \in hits : i <= j
       IN SubSeq(ks, 1, n - 1) \o SubSeq(ks, n + 1, Len(ks))

\* removeChildByName deleting the last child, whatever its name
removeChildByName_last(parent, name) ==
  IF ~checkNode(parent) \/ Kids(parent) = <<>> THEN lists
  ELSE [lists EXCEPT ![nodes[parent].kids] = SubSeq(@, 1, Len(@) - 1)]

removeChildByName(parent, name) ==
  IF ~checkNode(parent) THEN lists
  ELSE [lists EXCEPT ![nodes[parent].kids] = RemoveFirst(@, name)]

\* nodeDelete(tree, node), from the path of the node on: the lists afterwards
deleteChild(np, pc) ==
  IF np = 0 THEN lists ELSE removeChildByName(np, pc)

deleteUnder(tree, path, pp) ==
  IF pp = path THEN lists
  ELSE deleteChild(getNodeByPath(tree, pp), getPathLeaf(path))

deleteAtPath(tree, path) ==
  IF path = PNone THEN lists
  ELSE deleteUnder(tree, path, getPathAncestor(path, 1, TRUE))

\* a path argument that raises in getPathAncestor or getPathLeaf
deleteRaises(path) ==
  path # PNone /\ (getPathAncestor(path, 1, TRUE) = PRaise \/ getPathLeaf(path) = PRaise)

(***************************************************************************)
(* The inputs of the operations                                            *)
(***************************************************************************)
NameA == <<"A">>
NameB == <<"B">>

R8Fortran == [dtype |-> "d", shape |-> <<2, 2>>, fortran |-> TRUE,  data |-> <<1, 2, 3, 4>>]
R8RowNaN  == [dtype |-> "d", shape |-> <<1, 2>>, fortran |-> FALSE, data |-> <<1, NaN>>]
I8Long    == [dtype |-> "q", shape |-> <<1>>,    fortran |-> FALSE, data |-> <<7>>]

\* the (name, type, value) arguments of nodeCreate
NodeKinds ==
  { [name |-> CGNSTree_s, type |-> CGNSTree_ts, val |-> NoArray],
    [name |-> NameA,      type |-> CGNSBase_ts, val |-> NoArray],
    [name |-> NameB,      type |-> Zone_ts,     val |-> R8RowNaN],
    [name |-> CGNSTree_s, type |-> CGNSBase_ts, val |-> R8Fortran] }

\* the library version node, and the arguments of nodeCreate when trees are
\* built for the queries
R4Version   == [dtype |-> "f", shape |-> <<1>>, fortran |-> FALSE, data |-> <<3>>]
VersionKind == [name |-> CGNSLibraryVersion_s, type |-> CGNSLibraryVersion_ts,
                val |-> R4Version]
\* a node with a name of blanks and a node with a type that is no CGNS/SIDS type
NameBlank   == <<" ">>
NameU       == <<"U">>
BlankKind   == [name |-> NameBlank, type |-> CGNSBase_ts, val |-> NoArray]
UserKind    == [name |-> NameU, type |-> "Unknown_t", val |-> NoArray]
\* a node with a name that has a suffix already
NameA1      == <<"A", "#", "1">>
SuffixKind  == [name |-> NameA1, type |-> Zone_ts, val |-> NoArray]
BuildKinds  == NodeKinds \cup {VersionKind, BlankKind, UserKind, SuffixKind}

\* the value arguments of setValue
SetValueArgs == {NoArray, R8Fortran, I8Long}

\* the path arguments of nodeDelete on a tree
MissingPath == <<Slash, "Z">>

PathArgs(tree) ==
  LET all  == getAllPaths(tree)
      ps   == IF all = LRec THEN {} ELSE {all[i] : i \in 1..Len(all)}
  IN {<<Slash>>, MissingPath, CGNSTree_s, <<Slash>> \o CGNSTree_s,
      <<Slash>> \o nodes[tree].name}
     \cup ps
     \cup {<<Slash>> \o CGNSTree_s \o p : p \in ps}
     \cup {<<Slash>> \o nodes[tree].name \o p : p \in ps}

NoPath == [stage |-> "idle", arg |-> <<>>, once |-> <<>>, twice |-> <<>>]

\* the nodes that are in no children list: the tree arguments of nodeDelete
IsRoot(n) == \A l \in 1..Len(lists) : \A i \in 1..Len(lists[l]) : lists[l][i] # n

Roots == {n \in NodeIds : IsRoot(n)}

NoOp == [op |-> "none", tree |-> 0, node |-> 0, path |-> <<>>, ret |-> 0]

Init ==
  /\ nodes = <<>> /\ lists = <<>> /\ arrs = <<>>
  /\ last = NoOp
  /\ nmut = 0 /\ ncopy = 0
  /\ pth = NoPath

\* newNode that leaves the parent alone when it has a child of the name already
newNode_uniqueOnly(k, parent, dienow) ==
  /\ IF dienow /\ ~checkNodeCompliant(k.name, k.val, k.type)
     THEN /\ UNCHANGED <<nodes, lists, arrs>>
          /\ last' = [op |-> "nodeCreate", tree |-> parent, node |-> 0,
                      path |-> k.name, ret |-> -1]
     ELSE /\ arrs'  = IF k.val = NoArray THEN arrs ELSE Append(arrs, k.val)
          /\ nodes' = Append(nodes, [name |-> k.name,
                                     value |-> IF k.val = NoArray THEN 0
                                               ELSE Len(arrs) + 1,
                                     kids |-> Len(lists) + 1, type |-> k.type])
          /\ lists' = IF parent = 0 \/ ~checkDuplicatedName(parent, k.name)
                      THEN Append(lists, <<>>)
                      ELSE [Append(lists, <<>>) EXCEPT ![nodes[parent].kids] =
                              Append(@, Len(nodes) + 1)]
          /\ last'  = [op |-> "nodeCreate", tree |-> parent,
                       node |-> Len(nodes) + 1, path |-> k.name,
                       ret |-> Len(nodes) + 1]
  /\ UNCHANGED <<nmut, ncopy, pth>>

\* newNode(name, value, [], type, parent, dienow)
newNode(k, parent, dienow) ==
  /\ IF dienow /\ ~checkNodeCompliant(k.name, k.val, k.type)
     THEN /\ UNCHANGED <<nodes, lists, arrs>>
          /\ last' = [op |-> "nodeCreate", tree |-> parent, node |-> 0,
                      path |-> k.name, ret |-> -1]
     ELSE LET v  == IF k.val = NoArray THEN 0 ELSE Len(arrs) + 1
              l  == Len(lists) + 1
              n  == Len(nodes) + 1
              l1 == Append(lists, <<>>)
          IN /\ arrs'  = IF k.val = NoArray THEN arrs ELSE Append(arrs, k.val)
             /\ nodes' = Append(nodes, [name |-> k.name, value |-> v,
                                        kids |-> l, type |-> k.type])
             /\ lists' = IF parent = 0 THEN l1
                         ELSE [l1 EXCEPT ![nodes[parent].kids] = Append(@, n)]
             /\ last'  = [op |-> "nodeCreate", tree |-> parent, node |-> n,
                          path |-> k.name, ret |-> n]
  /\ UNCHANGED <<nmut, ncopy, pth>>

\* nodeCreate(name, value, [], type, parent, dienow)
NodeCreate(k, parent, dienow) ==
  /\ Len(nodes) < MaxNodes
  /\ newNode(k, parent, dienow)

\* setChild(parent, node) = addChild(parent, node)
SetChild(parent, node) ==
  /\ nmut < MaxMut
  /\ nmut' = nmut + 1
  /\ lists' = [lists EXCEPT ![nodes[parent].kids] = Append(@, node)]
  /\ last' = [op |-> "setChild", tree |-> parent, node |-> node,
              path |-> <<>>, ret |-> parent]
  /\ UNCHANGED <<nodes, arrs, ncopy, pth>>

\* nodeCopy(node, newname)
NodeCopy(node, newname) ==
  LET nm == IF newname = PNone THEN nodes[node].name ELSE newname
      r  == copyNode(Heap, node, nm, Fuel)
  IN /\ ncopy < MaxCopies
     /\ ncopy' = ncopy + 1
     /\ IF r.id = -1
        THEN UNCHANGED <<nodes, lists, arrs>>
        ELSE nodes' = r.H.nodes /\ lists' = r.H.lists /\ arrs' = r.H.arrs
     /\ last' = [op |-> "nodeCopy", tree |-> 0, node |-> node,
                 path |-> newname, ret |-> r.id]
     /\ UNCHANGED <<nmut, pth>>

\* nodeDelete(tree, path), the target given as a path string
NodeDeletePath(tree, path) ==
  /\ nmut < MaxMut
  /\ nmut' = nmut + 1
  /\ IF deleteRaises(path)
     THEN /\ UNCHANGED lists
          /\ last' = [op |-> "nodeDeletePath", tree |-> tree,
                      node |-> getNodeByPath(tree, path),
                      path |-> path, ret |-> -1]
     ELSE /\ lists' = deleteAtPath(tree, path)
          /\ last' = [op |-> "nodeDeletePath", tree |-> tree,
                      node |-> getNodeByPath(tree, path),
                      path |-> path, ret |-> tree]
  /\ UNCHANGED <<nodes, arrs, ncopy, pth>>

\* nodeDelete(tree, node), the target given as a node
NodeDeleteNode(tree, node) ==
  LET path == getPathFromRoot(tree, node) IN
  /\ nmut < MaxMut
  /\ nmut' = nmut + 1
  /\ IF path = RecErr \/ deleteRaises(path)
     THEN /\ UNCHANGED lists
          /\ last' = [op |-> "nodeDeleteNode", tree |-> tree, node |-> node,
                      path |-> path, ret |-> -1]
     ELSE /\ lists' = deleteAtPath(tree, path)
          /\ last' = [op |-> "nodeDeleteNode", tree |-> tree, node |-> node,
                      path |-> path, ret |-> tree]
  /\ UNCHANGED <<nodes, arrs, ncopy, pth>>

\* setValue(node, value); the record of the call keeps the dtype of the value
SetValue(node, a) ==
  /\ nmut < MaxMut
  /\ nmut' = nmut + 1
  /\ LET t == IF a = NoArray THEN "None" ELSE getValueTypeRec(a) IN
     IF t = "None"
     THEN /\ nodes' = [nodes EXCEPT ![node].value = 0]
          /\ arrs' = arrs
     ELSE /\ arrs' = Append(arrs, a)
          /\ nodes' = [nodes EXCEPT ![node].value = Len(arrs) + 1]
  /\ last' = [op |-> "setValue", tree |-> 0, node |-> node, path |-> <<a.dtype>>,
              ret |-> node]
  /\ UNCHANGED <<lists, ncopy, pth>>

Next ==
  \/ \E k \in NodeKinds, parent \in {0} \cup NodeIds, dienow \in BOOLEAN :
        NodeCreate(k, parent, dienow)
  \/ \E parent \in NodeIds, node \in NodeIds : SetChild(parent, node)
  \/ \E node \in NodeIds, newname \in {PNone, NameB} : NodeCopy(node, newname)
  \/ \E tree \in Roots : \E path \in PathArgs(tree) : NodeDeletePath(tree, path)
  \/ \E tree \in Roots, node \in NodeIds : NodeDeleteNode(tree, node)
  \/ \E node \in NodeIds, a \in SetValueArgs : SetValue(node, a)

Spec == Init /\ [][Next]_vars

(***************************************************************************)
(* Vocabulary of the properties: the shape of the heap seen from a node    *)
(***************************************************************************)
HasBackslash(s) == \E i \in 1..Len(s) : s[i] = Backslash

ChildSet(n) == {Kids(n)[i] : i \in 1..Len(Kids(n))}

RECURSIVE ReachFrom(_,_)
ReachFrom(S, k) ==
  IF k = 0 THEN S ELSE ReachFrom(S \cup UNION {ChildSet(n) : n \in S}, k - 1)

\* the node n and its descendants
Desc(n) == ReachFrom({n}, Len(nodes))

\* the child edges, as <<parent, position>>, that lead to m from the nodes of D
EdgesTo(D, m) ==
  UNION {{<<q, i>> : i \in {j \in 1..Len(Kids(q)) : Kids(q)[j] = m}} : q \in D}

\* what is reachable from r is a tree: one way from r to each node
IsTree(r) ==
  LET D == Desc(r) IN
  \A m \in D : Cardinality(EdgesTo(D, m)) = IF m = r THEN 0 ELSE 1

\* the parent of the proper descendant m of the tree r
ParentIn(r, m) == CHOOSE q \in Desc(r) : m \in ChildSet(q)

\* the nodes on the way from r (excluded) down to n (included)
OnWay(r, n) == {m \in Desc(r) \ {r} : n \in Desc(m)}

\* m is the first of its parent's children to bear its name
FirstOfName(r, m) ==
  LET ks == Kids(ParentIn(r, m)) IN
  \A i \in 1..Len(ks) : ks[i] = m =>
     \A j \in 1..(i - 1) : nodes[ks[j]].name # nodes[m].name

\* n is the same node, under checkSameNode, as itself and as no other node of r
SoleMatch(r, n) == \A m \in Desc(r) : checkSameNode(n, m) <=> m = n

\* no other node of r is the same node as n under checkSameNode
UniqueIn(r, n) == \A m \in Desc(r) \ {n} : ~checkSameNode(n, m)

RootedTree(r) == nodes[r].type = CGNSTree_ts /\ IsTree(r)

\* the round trip of C1 is the identity on n in the tree r
RoundTrip(r, n) == getNodeByPath(r, getPathFromNode(r, n)) = n

\* the conditions under which a path from the root of r names n
Addressable(r, n) ==
  /\ n # r
  /\ RootedTree(r)
  /\ n \in Desc(r)
  /\ checkNode(n)
  /\ SoleMatch(r, n)
  /\ \A m \in OnWay(r, n) :
        /\ checkName(nodes[m].name, FALSE)
        /\ FirstOfName(r, m)
        /\ m \in ChildSet(r) => nodes[m].name # CGNSTree_s

(***************************************************************************)
(* C1                                                                      *)
(***************************************************************************)
\* C1 as stated: in every tree, every well-formed node that no other node of
\* the tree equals under checkSameNode is returned by
\* getNodeByPath(tree, getPathFromNode(tree, n))
C1_RoundTripAnyTree ==
  \A r \in NodeIds, n \in NodeIds :
     (IsTree(r) /\ n \in Desc(r) /\ checkNode(n) /\ UniqueIn(r, n)) => RoundTrip(r, n)

\* C1 amended: the round trip returns n when the tree is rooted at a
\* CGNSTree_t node, n is a proper descendant that checkSameNode equals to
\* itself and to no other node, the names on the way to n are legal, each node
\* on the way is the first child of its name, and the way does not start with
\* a child named CGNSTree
C1_RoundTripRooted ==
  \A r \in NodeIds, n \in NodeIds : Addressable(r, n) => RoundTrip(r, n)

\* C1 witness: a node two levels below a CGNSTree_t root is resolved from its path
C1_Witness ==
  \E r \in NodeIds, n \in NodeIds :
     Addressable(r, n) /\ Cardinality(OnWay(r, n)) = 2 /\ RoundTrip(r, n)

(***************************************************************************)
(* C2                                                                      *)
(***************************************************************************)
ListsOf(S)  == {nodes[m].kids : m \in S}
ArraysOf(S) == {nodes[m].value : m \in S} \ {0}

\* C2: right after c = nodeCopy(n), the copy and its descendants share no
\* node, no children list and no array with n and its descendants, so that
\* nothing done through c can reach n
C2_CopyIndependent ==
  (last.op = "nodeCopy" /\ last.ret > 0) =>
     LET n == last.node
         c == last.ret
     IN /\ Desc(n) \cap Desc(c) = {}
        /\ ListsOf(Desc(n)) \cap ListsOf(Desc(c)) = {}
        /\ ArraysOf(Desc(n)) \cap ArraysOf(Desc(c)) = {}

(***************************************************************************)
(* C3 and C4: in the record of a nodeDelete with a path target, node is    *)
(* the node the path resolved to before the call, 0 when it resolved to    *)
(* none                                                                    *)
(***************************************************************************)
DeletedByPath == last.op = "nodeDeletePath" /\ last.ret # -1

\* C3 as stated: after nodeDelete(tree, p), with any tree and any path p,
\* getNodeByPath(tree, p) returns None
C3_DeleteThenResolveAny ==
  DeletedByPath => getNodeByPath(last.tree, last.path) = 0

RootNames == {CGNSTree_s, CGNSHDF5ROOT_s}

\* the children lists below r hold no two nodes of the same name
DistinctSiblings(r) ==
  \A q \in Desc(r) : \A i \in 1..Len(Kids(q)) : \A j \in 1..Len(Kids(q)) :
     i # j => nodes[Kids(q)[i]].name # nodes[Kids(q)[j]].name

\* the trees on which a path names at most one node, and not the tree itself
PlainTree(r) ==
  /\ IsTree(r)
  /\ nodes[r].type = CGNSTree_ts \/ nodes[r].name \notin RootNames
  /\ DistinctSiblings(r)
  /\ \A m \in Desc(r) \ {r} : nodes[m].name \notin RootNames
  /\ \A m \in Desc(r) : ~HasBackslash(nodes[m].name)

\* C3 amended: nodeDelete(tree, p), p in normal form, leaves
\* getNodeByPath(tree, p) at None when the top of the tree has the type
\* CGNSTree_t or bears no root name, the tree holds no two siblings of the
\* same name, no node below its top with a root name and no name with a
\* backslash, and p did not resolve to the tree itself
C3_DeleteThenResolve ==
  [][\A t \in NodeIds : \A p \in PathArgs(t) :
       (/\ last'.op = "nodeDeletePath" /\ last'.ret # -1
        /\ last'.tree = t /\ last'.path = p
        /\ getPathNormalize(p) = p
        /\ PlainTree(t)
        /\ getNodeByPath(t, p) # t)
       => getNodeByPath(t, p)' = 0]_vars

\* C3 witness: a path that resolved to a node below the tree was deleted and
\* resolves to None
C3_Witness ==
  /\ DeletedByPath
  /\ last.node > 0 /\ last.node # last.tree
  /\ PlainTree(last.tree)
  /\ getNodeByPath(last.tree, last.path) = 0

\* C4: a nodeDelete whose target does not resolve in the tree (an absolute
\* path that getNodeByPath resolves to None, a node that getPathFromRoot does
\* not find) raises nothing and leaves getAllPaths(tree) as it was
C4_DeleteMissingIsNoOp ==
  [][\A t \in NodeIds :
       (/\ last'.tree = t
        /\ \/ /\ last'.op = "nodeDeletePath"
              /\ last'.path[1] = Slash
              /\ last'.node = 0
           \/ last'.op = "nodeDeleteNode" /\ getPathFromRoot(t, last'.node) = PNone)
       => /\ last'.ret # -1
          /\ getAllPaths(t)' = getAllPaths(t)]_vars

(***************************************************************************)
(* C5                                                                      *)
(***************************************************************************)
Parents(m) == {q \in NodeIds : m \in ChildSet(q)}

\* C5: whatever the operations made, every node is a child of at most one
\* parent, no children list belongs to two nodes and no node is below itself
C5_Forest ==
  /\ \A m \in NodeIds : Cardinality(Parents(m)) <= 1
  /\ \A a \in NodeIds, b \in NodeIds : a # b => nodes[a].kids # nodes[b].kids
  /\ \A m \in NodeIds : m \notin UNION {Desc(k) : k \in ChildSet(m)}

(***************************************************************************)
(* C6                                                                      *)
(***************************************************************************)
\* C6: getParentFromNode returns the root itself for the root of a tree, and
\* the node whose children list holds the node for a proper descendant that
\* a path from the root names
C6_ParentLookup ==
  \A r \in NodeIds :
     (RootedTree(r) /\ checkSameNode(r, r)) =>
        /\ getParentFromNode(r, r) = r
        /\ \A n \in NodeIds :
              Addressable(r, n) => getParentFromNode(r, n) = ParentIn(r, n)

(***************************************************************************)
(* C7                                                                      *)
(***************************************************************************)
RootPath == <<Slash>> \o CGNSTree_s

BelowRootPaths(r) ==
  {p \in PathArgs(r) : p[1] = Slash /\ Len(p) > 1 /\ Split(Tail(p))[1] # CGNSTree_s}

Ascending(l) == \A i \in 1..(Len(l) - 1) : ~StrLess(l[i + 1], l[i])

\* a query returned a list of paths: no None, no exception
IsPathList(l) == l \notin {LRec, LRaise, LNone}

TypeSets  == {{CGNSBase_ts, Zone_ts}, {Zone_ts}}
TypeLists == {<<CGNSTree_ts, CGNSBase_ts>>, <<CGNSTree_ts, Zone_ts>>,
              <<CGNSBase_ts, Zone_ts>>}
Star      == <<Slash, Dot, "*">>
Filters   == {Star, <<Slash, "A">>, <<Slash, "A", Slash, Dot, "*">>}

PathChars == {Slash, Dot, Backslash, "A"}

RECURSIVE StringsUpTo(_)
StringsUpTo(n) ==
  IF n = 0 THEN {<<>>}
  ELSE LET S == StringsUpTo(n - 1)
       IN S \cup {Append(s, c) : s \in {x \in S : Len(x) = n - 1}, c \in PathChars}

PathInit ==
  /\ nodes = <<>> /\ lists = <<>> /\ arrs = <<>>
  /\ last = NoOp
  /\ nmut = 0 /\ ncopy = 0
  /\ \E s \in StringsUpTo(MaxLen) :
        pth = [stage |-> "drawn", arg |-> s, once |-> <<>>, twice |-> <<>>]

\* p1 = getPathNormalize(p)
Normalize ==
  /\ pth.stage = "drawn"
  /\ pth' = [pth EXCEPT !.stage = "once", !.once = getPathNormalize(pth.arg)]
  /\ UNCHANGED <<nodes, lists, arrs, last, nmut, ncopy>>

\* p2 = getPathNormalize(p1)
NormalizeAgain ==
  /\ pth.stage = "once"
  /\ pth' = [pth EXCEPT !.stage = "twice", !.twice = getPathNormalize(pth.once)]
  /\ UNCHANGED <<nodes, lists, arrs, last, nmut, ncopy>>

PathNext == Normalize \/ NormalizeAgain

PathSpec == PathInit /\ [][PathNext]_vars


(***************************************************************************)
(* C9                                                                      *)
(***************************************************************************)
\* C9: getPathNormalize is idempotent, for every path string
C9_NormalizeIdempotent ==
  pth.stage = "twice" => pth.twice = pth.once

(***************************************************************************)
(* C10                                                                     *)
(***************************************************************************)
\* C10: the copy c = nodeCopy(n) of a well-formed node is the same node as n
\* under checkSameNode and has the same value under checkSameValue
C10_CopyEqualsSource ==
  (last.op = "nodeCopy" /\ last.ret > 0 /\ last.path = PNone /\ checkNode(last.node)) =>
     /\ checkSameNode(last.node, last.ret)
     /\ checkSameValue(last.node, last.ret)

(***************************************************************************)
(* The construction specification: trees are built by nodeCreate alone,    *)
(* and the queries are read on every tree that results                     *)
(***************************************************************************)
BuildNext ==
  \E k \in BuildKinds, parent \in {0} \cup NodeIds, dienow \in BOOLEAN :
     NodeCreate(k, parent, dienow)

BuildSpec == Init /\ [][BuildNext]_vars

(***************************************************************************)
(* C11                                                                     *)
(***************************************************************************)
\* the nodes that the names of segs lead to from the nodes of S, child by child
RECURSIVE MatchSet(_,_)
MatchSet(S, segs) ==
  IF segs = <<>> THEN S
  ELSE MatchSet({c \in UNION {ChildSet(q) : q \in S} : nodes[c].name = Head(segs)},
                Tail(segs))

\* the nodes of the tree r that the path string p names: each segment is the
\* name of a child of the node before it; the segment CGNSTree may stand
\* first for the root of a CGNSTree_t tree, and the first segment of a path
\* into another tree names its top node
Named(r, p) ==
  IF p = PNone \/ p = <<>> THEN {}
  ELSE IF p = <<Slash>> THEN {r}
  ELSE LET segs == Split(IF p[1] = Slash THEN Tail(p) ELSE p) IN
       IF nodes[r].type = CGNSTree_ts
       THEN MatchSet({r}, IF segs[1] = CGNSTree_s THEN Tail(segs) ELSE segs)
       ELSE IF segs[1] = nodes[r].name THEN MatchSet({r}, Tail(segs)) ELSE {}

\* path arguments of getNodeByPath: those of nodeDelete, None, the empty
\* string, paths with an empty or a dot segment, and every path of the tree
\* with a slash or a missing segment after it
ResolveArgs(r) ==
  PathArgs(r)
  \cup {PNone, <<>>, <<Slash, Slash>>, <<Slash, "A", Slash, Slash, "B">>,
        <<Slash, Dot>>, <<"A", Slash, Dot, Dot>>, <<"A">>, <<Slash, "A", Slash, "B">>}
  \cup {q \o MissingPath : q \in PathArgs(r)}
  \cup {q \o <<Slash>> : q \in PathArgs(r)}

\* C11: for every tree and path argument getNodeByPath returns None or a node
\* and raises nothing; the node is one that the segments of the path name,
\* and the result is None when they name no node
C11_ResolveNeverRaises ==
  \A r \in NodeIds : \A p \in ResolveArgs(r) :
     LET n == getNodeByPath(r, p) IN
     /\ n \in {0} \cup NodeIds
     /\ n # 0 => n \in Named(r, p)
     /\ Named(r, p) = {} => n = 0

\* C11 witness: a path of two segments resolves to a node, and the same path
\* with one more segment, deeper than the leaf, resolves to None
C11_Witness ==
  \E r \in NodeIds : \E p \in ResolveArgs(r) :
     /\ p \in PathArgs(r)
     /\ Len(p) > 1 /\ p[1] = Slash
     /\ Len(Split(Tail(p))) = 2
     /\ getNodeByPath(r, p) \in NodeIds \ {r}
     /\ Len(Kids(getNodeByPath(r, p))) = 0
     /\ getNodeByPath(r, p \o MissingPath) = 0

(***************************************************************************)
(* C12                                                                     *)
(***************************************************************************)
\* the children of n that are library version nodes
VersionChildren(n) ==
  {i \in 1..Len(Kids(n)) : /\ nodes[Kids(n)[i]].name = CGNSLibraryVersion_s
                           /\ nodes[Kids(n)[i]].type = CGNSLibraryVersion_ts}

\* C12: isRootNode accepts a node only if it has at most one library version
\* child, every other child has the type CGNSBase_t and, without legacy, the
\* node has the type CGNSTree_t; a node with two version children is
\* rejected, by False or by an error
C12_RootValidation ==
  \A n \in NodeIds : \A legacy \in BOOLEAN, dienow \in BOOLEAN :
     /\ isRootNode(n, legacy, dienow) = "True" =>
           /\ Cardinality(VersionChildren(n)) <= 1
           /\ \A i \in 1..Len(Kids(n)) \ VersionChildren(n) :
                 nodes[Kids(n)[i]].type = CGNSBase_ts
           /\ ~legacy => nodes[n].type = CGNSTree_ts
     /\ Cardinality(VersionChildren(n)) >= 2 =>
           isRootNode(n, legacy, dienow) \in {"False", "Raise"}

(***************************************************************************)
(* C13                                                                     *)
(***************************************************************************)
\* one of the checks of the name, of the value and of the type fails
FailsACheck(k) ==
  \/ ~checkName(k.name, FALSE)
  \/ ~checkArrayRec(k.val)
  \/ ~checkNodeType(k.type)

\* C13: a nodeCreate with dienow and a parent, for a node that fails one of
\* the compliance checks, raises and leaves every children list, the one of
\* the parent included, and every node as it was
C13_StrictCreateFails ==
  [][\A k \in BuildKinds : \A parent \in NodeIds :
        (FailsACheck(k) /\ NodeCreate(k, parent, TRUE)) =>
           /\ last'.ret = -1
           /\ lists' = lists
           /\ nodes' = nodes]_vars

\* a strict nodeCreate under a parent has raised on the type of the node
C13_Witness ==
  /\ last.op = "nodeCreate" /\ last.ret = -1
  /\ last.tree \in NodeIds
  /\ last.path = NameU
  /\ \A i \in 1..Len(Kids(last.tree)) : nodes[Kids(last.tree)[i]].name # NameU

(***************************************************************************)
(* C14                                                                     *)
(***************************************************************************)
\* the names of the children of a node
ChildNames(n) == {nodes[Kids(n)[i]].name : i \in 1..Len(Kids(n))}

\* name#k for a k of one digit
Suffixed(name, k) ==
  name \o <<"#">> \o <<(<<"0", "1", "2", "3", "4", "5", "6", "7", "8", "9">>)[k + 1]>>

\* the base names asked for
UniqueArgs == {NameA, NameB, NameA1, CGNSTree_s}

\* C14: checkUniqueChildName(parent, name) is no name of a child of parent:
\* it is name when no child has it, otherwise name#k for the smallest k >= 1
\* such that name#k is no name of a child
C14_UniqueChildName ==
  \A parent \in NodeIds : \A name \in UniqueArgs :
     LET r == checkUniqueChildName(parent, name, FALSE) IN
     /\ r \notin ChildNames(parent)
     /\ name \notin ChildNames(parent) => r = name
     /\ name \in ChildNames(parent) =>
           \E k \in 1..9 :
              /\ r = Suffixed(name, k)
              /\ \A j \in 1..(k - 1) : Suffixed(name, j) \in ChildNames(parent)

\* a parent holds the name and the name with the suffix 1: the answer is the
\* name with the suffix 2
C14_Witness ==
  \E parent \in NodeIds :
     /\ {NameA, NameA1} \subseteq ChildNames(parent)
     /\ checkUniqueChildName(parent, NameA, FALSE) = <<"A", "#", "2">>

(***************************************************************************)
(* C15                                                                     *)
(***************************************************************************)
\* '/' and the names, joined by '/', from a child of r down to the proper
\* descendant n of the tree r; the empty string for r
RECURSIVE NamePath(_,_)
NamePath(r, n) ==
  IF n = r THEN <<>>
  ELSE NamePath(r, ParentIn(r, n)) \o <<Slash>> \o nodes[n].name

\* how many times x is in the list l
Count(l, x) == Cardinality({i \in 1..Len(l) : l[i] = x})

\* the list l holds the path F[n] once for each node n of the set N, and
\* nothing else
PathsWith(l, F, N) ==
  /\ IsPathList(l)
  /\ Len(l) = Cardinality(N)
  /\ \A i \in 1..Len(l) : \E n \in N : l[i] = F[n]
  /\ \A n \in N : Count(l, F[n]) = Cardinality({m \in N : F[m] = F[n]})

\* the list l holds one path for each node of the set N of descendants of r,
\* and nothing else
PathsOf(l, r, N) == PathsWith(l, [n \in N |-> NamePath(r, n)], N)

RECURSIVE TypeChain(_,_)
TypeChain(r, n) ==
  IF n = r THEN <<nodes[r].type>>
  ELSE Append(TypeChain(r, ParentIn(r, n)), nodes[n].type)

\* the descendants of r whose chain of types is the list tl
ChainNodes(r, tl) == {n \in Desc(r) : TypeChain(r, n) = tl}

\* the path of a descendant as the type queries write it: the name of the tree
\* comes first when the tree is no CGNSTree_t
QueryPath(r, n) ==
  (IF nodes[r].type = CGNSTree_ts THEN <<>> ELSE nodes[r].name) \o NamePath(r, n)

TypeListArgs ==
  TypeLists \cup {<<CGNSTree_ts>>, <<CGNSTree_ts, CGNSBase_ts, Zone_ts>>,
                  <<CGNSBase_ts, Zone_ts, Zone_ts>>}

\* C16: getAllNodesByTypeList(tree, typelist) is None when the type of tree
\* is not typelist[0]; otherwise it is a list, the paths of exactly the nodes
\* whose chain of types from tree down to the node is typelist
C16_TypeChainSearch ==
  \A r \in NodeIds : \A tl \in TypeListArgs :
     LET l == getAllNodesByTypeList(r, tl) IN
     IF nodes[r].type # tl[1] THEN l = LNone
     ELSE /\ IsPathList(l)
          /\ Len(tl) > 1 =>
                PathsWith(l, [n \in Desc(r) |-> QueryPath(r, n)], ChainNodes(r, tl))

(***************************************************************************)
(* C17                                                                     *)
(***************************************************************************)
TypeSetArgs == TypeSets \cup {{}, {CGNSTree_ts, Zone_ts}}

\* the proper descendants of r whose type is in the set ts
TypedNodes(r, ts) == {n \in Desc(r) \ {r} : nodes[n].type \in ts}

\* C17: getAllNodesByTypeSet(tree, typeset) holds the path of every proper
\* descendant of tree whose type is in typeset, whatever its depth and
\* whatever the types of the nodes above it, and no other path
C17_TypeSetSearch ==
  \A r \in NodeIds : \A ts \in TypeSetArgs :
     PathsWith(getAllNodesByTypeSet(r, ts),
               [n \in Desc(r) |-> QueryPath(r, n)], TypedNodes(r, ts))

\* a node of a type of the set under a node of a type of the set: the paths
\* of both are returned
C17_Witness ==
  \E r \in NodeIds : \E ts \in TypeSetArgs :
     \E n \in TypedNodes(r, ts) : \E m \in TypedNodes(r, ts) \cap ChildSet(n) :
        LET l == getAllNodesByTypeSet(r, ts) IN
        /\ Count(l, QueryPath(r, n)) = 1
        /\ Count(l, QueryPath(r, m)) = 1

(***************************************************************************)
(* C18                                                                     *)
(***************************************************************************)
NameFilterArgs ==
  Filters \cup {<<Slash, "A", Dot, "*">>, <<Slash, Dot, "*", Slash, "B">>, <<Slash, "Z">>}

\* the '/'-separated expressions of a filter, and the segments of a path of
\* getAllPaths
Expressions(filter) == Tail(Split(filter))
Segments(p) == Tail(Split(p))

\* the path p has as many segments as the filter has expressions, and each
\* segment is matched from its start by the expression of its rank
NameMatch(p, filter) ==
  /\ Len(Segments(p)) = Len(Expressions(filter))
  /\ \A i \in 1..Len(Expressions(filter)) : ReMatch(Expressions(filter)[i], Segments(p)[i])

\* the paths of getAllPaths(r) that pass the name filter, in their order
NameFiltered(r, filter) ==
  LET Test(p) == NameMatch(p, filter) IN SelectSeq(getAllPaths(r), Test)

\* C18: getPathByNameFilter(tree, filter) is the list of exactly the paths of
\* getAllPaths(tree) that have as many segments as the filter has expressions
\* and whose segments are matched, each from its start, by the expression of
\* the same rank; it is the empty list when no path passes
C18_NameFilter ==
  \A r \in NodeIds : \A f \in NameFilterArgs :
     /\ IsPathList(getPathByNameFilter(r, f))
     /\ getPathByNameFilter(r, f) = NameFiltered(r, f)

(***************************************************************************)
(* C19                                                                     *)
(***************************************************************************)
TypeFilterArgs ==
  {Star, Star \o Star, <<Slash>> \o TypeChars(CGNSBase_ts),
   <<Slash>> \o TypeChars(CGNSBase_ts) \o <<Slash>> \o TypeChars(Zone_ts),
   <<Slash, "Z", "o", "n", "e", Dot, "*">>}

\* the node met from n along the names segs, the first child of each name
RECURSIVE Follow(_,_)
Follow(n, segs) ==
  IF segs = <<>> THEN n
  ELSE LET ks == Kids(n)
           i  == CHOOSE j \in 1..Len(ks) :
                   /\ nodes[ks[j]].name = Head(segs)
                   /\ \A h \in 1..(j - 1) : nodes[ks[h]].name # Head(segs)
       IN Follow(ks[i], Tail(segs))

\* the types of the nodes met along the path p of getAllPaths(r), one for
\* each segment: the type of r itself is not in the list
TypesAlong(r, p) ==
  [i \in 1..Len(Segments(p)) |->
     TypeChars(nodes[Follow(r, SubSeq(Segments(p), 1, i))].type)]

\* the types along p are as many as the expressions of the filter, and each
\* is matched from its start by the expression of its rank
TypeMatch(r, p, filter) ==
  /\ Len(Segments(p)) = Len(Expressions(filter))
  /\ \A i \in 1..Len(Expressions(filter)) :
        ReMatch(Expressions(filter)[i], TypesAlong(r, p)[i])

\* the paths of getAllPaths(r) that pass the type filter, in their order
TypeFiltered(r, filter) ==
  LET Test(p) == TypeMatch(r, p, filter) IN SelectSeq(getAllPaths(r), Test)

\* C19: getPathByTypeFilter(tree, filter) is the list of exactly the paths of
\* getAllPaths(tree) whose types along the path, one for each segment, are as
\* many as the expressions of the filter and are matched each by the
\* expression of its rank, for a CGNSTree_t root and for a sub-tree
C19_TypeFilter ==
  \A r \in NodeIds : \A f \in TypeFilterArgs :
     /\ IsPathList(getPathByTypeFilter(r, f))
     /\ getPathByTypeFilter(r, f) = TypeFiltered(r, f)

(***************************************************************************)
(* The specification of the trees of four nodes: nodeCreate alone, with    *)
(* three kinds of nodes, so that a path of depth two can sort before a     *)
(* path of depth one                                                       *)
(***************************************************************************)
MaxWide == 4

WideKinds == {k \in NodeKinds : k.name # CGNSTree_s \/ k.type = CGNSTree_ts}

WideNext ==
  \E k \in WideKinds, parent \in {0} \cup NodeIds, dienow \in BOOLEAN :
     /\ Len(nodes) < MaxWide
     /\ newNode(k, parent, dienow)

WideSpec == Init /\ [][WideNext]_vars

(***************************************************************************)
(* C20                                                                     *)
(***************************************************************************)
\* the list w holds what the list a holds, each path as many times
Permutation(w, a) ==
  /\ Len(w) = Len(a)
  /\ \A i \in 1..Len(a) : Count(w, a[i]) = Count(a, a[i])

\* the list w is in the order of the depth, then of the strings
WidthFirst(w) ==
  \A i \in 1..Len(w) : \A j \in (i + 1)..Len(w) :
     \/ Len(Segments(w[i])) < Len(Segments(w[j]))
     \/ Len(Segments(w[i])) = Len(Segments(w[j])) /\ ~StrLess(w[j], w[i])

\* in the list w the path of a node comes after the path of its parent
ParentFirst(r, w) ==
  \A n \in Desc(r) \ ({r} \cup ChildSet(r)) :
     \A j \in 1..Len(w) :
        w[j] = NamePath(r, n) =>
           \E i \in 1..(j - 1) : w[i] = NamePath(r, ParentIn(r, n))

\* C20: getPathFullTree(tree, width=True) is a permutation of
\* getAllPaths(tree) in the order of the depth and, at one depth, of the
\* strings, so that a path comes after the path of its parent;
\* getAllNodesAsWidthFirstIndex(tree) holds the same paths in the same order
\* with the indexes 0 to N-1
C20_WidthFirstOrder ==
  \A r \in NodeIds :
     LET w  == getPathFullTree(r, TRUE)
         ix == getAllNodesAsWidthFirstIndex(r, 1)
     IN /\ Permutation(w, getAllPaths(r))
        /\ WidthFirst(w)
        /\ ParentFirst(r, w)
        /\ Len(ix) = Len(w)
        /\ \A i \in 1..Len(ix) : ix[i][2] = i - 1 /\ ix[i][3] = w[i]

\* a tree whose width-first list is not the list of getAllPaths: '/A/B' comes
\* before '/B' in the one and after it in the other
C20_Witness ==
  \E r \in NodeIds :
     /\ getAllPaths(r) = << <<Slash, "A">>, <<Slash, "A", Slash, "B">>, <<Slash, "B">> >>
     /\ getPathFullTree(r, TRUE) = << <<Slash, "A">>, <<Slash, "B">>, <<Slash, "A", Slash, "B">> >>
     /\ getAllNodesAsWidthFirstIndex(r, 1)[3] = <<1, 2, <<Slash, "A", Slash, "B">> >>

(***************************************************************************)
(* The specification of the path algebra on segments: an argument is       *)
(* drawn, a list of paths, a path and a level, or two paths, then the      *)
(* function is applied to it                                               *)
(***************************************************************************)
MaxSegs  == 2
MaxPaths == 3

NameBC == <<"B", "C">>

\* the absolute paths of n segments named A or B, without their first slash
RECURSIVE SegPaths(_)
SegPaths(n) ==
  IF n = 0 THEN {<<>>}
  ELSE {q \o <<Slash>> \o nm : q \in SegPaths(n - 1), nm \in {NameA, NameB}}

AlgPaths ==
  {<<Slash>>}
  \cup UNION {SegPaths(n) : n \in 1..MaxSegs}
  \cup {<<Slash, "A", Slash, "B", "C">>,
        <<Slash>> \o CGNSTree_s,
        <<Slash>> \o CGNSTree_s \o <<Slash, "A">>,
        <<Slash>> \o CGNSTree_s \o <<Slash, "B">>,
        <<Slash, "A", Slash, "B", Slash, "A">>,
        <<Slash, "A", Slash, "B", Slash, "B">>,
        <<Slash, "A", Slash, "B", Slash, "A", Slash, "B">>}

\* the levels asked of getPathAncestor
Levels == 0..(MaxSegs + 2)

\* the names given to checkName: the strings of up to MaxNameDraw characters
\* of a small alphabet (the tabulation is no character of a name), names of
\* 32 and of 33 characters, and None
MaxNameDraw == 3

NameDrawChars == {"A", "1", " ", Slash, Dot, "'", "\"", Backslash, Backquote, "\t"}

RECURSIVE NamesOfLen(_)
NamesOfLen(n) ==
  IF n = 0 THEN {<<>>}
  ELSE {Append(nm, c) : nm \in NamesOfLen(n - 1), c \in NameDrawChars}

NameArgs ==
  UNION {NamesOfLen(n) : n \in 0..MaxNameDraw}
  \cup {[i \in 1..MaxNameLen |-> "x"], [i \in 1..(MaxNameLen + 1) |-> "x"],
        <<"B", "a", "s", "e", "1">>, <<"A", " ", " ", "B">>, PNone}

\* the lists of n paths
RECURSIVE PathLists(_)
PathLists(n) ==
  IF n = 0 THEN {<<>>}
  ELSE {Append(l, q) : l \in PathLists(n - 1), q \in AlgPaths}

Drawn(stage, arg) == [stage |-> stage, arg |-> arg, once |-> <<>>, twice |-> <<>>]

AlgebraInit ==
  /\ nodes = <<>> /\ lists = <<>> /\ arrs = <<>>
  /\ last = NoOp
  /\ nmut = 0 /\ ncopy = 0
  /\ \/ \E n \in 0..MaxPaths : \E l \in PathLists(n) : pth = Drawn("pathlist", l)
     \/ \E q \in AlgPaths : \E level \in Levels : pth = Drawn("level", <<q, level>>)
     \/ \E q1 \in AlgPaths : \E q2 \in AlgPaths : pth = Drawn("pair", <<q1, q2>>)
     \/ \E nm \in NameArgs : pth = Drawn("name", nm)

\* c = getPathListCommonAncestor(pathlist)
CommonAncestor ==
  /\ pth.stage = "pathlist"
  /\ pth' = [pth EXCEPT !.stage = "common", !.once = getPathListCommonAncestor(pth.arg)]
  /\ UNCHANGED <<nodes, lists, arrs, last, nmut, ncopy>>

\* a = getPathAncestor(path, level); l = getPathLeaf(path)
Ancestor ==
  /\ pth.stage = "level"
  /\ pth' = [pth EXCEPT !.stage = "ancestor",
                        !.once = getPathAncestor(pth.arg[1], pth.arg[2], TRUE),
                        !.twice = getPathLeaf(pth.arg[1])]
  /\ UNCHANGED <<nodes, lists, arrs, last, nmut, ncopy>>

\* b = hasSameRootPath(pathroot, pathtocompare)
SameRoot ==
  /\ pth.stage = "pair"
  /\ pth' = [pth EXCEPT !.stage = "sameroot",
                        !.once = hasSameRootPath(pth.arg[1], pth.arg[2])]
  /\ UNCHANGED <<nodes, lists, arrs, last, nmut, ncopy>>

\* checkName(name) and checkName(name, strict=True)
CheckName ==
  /\ pth.stage = "name"
  /\ pth' = [pth EXCEPT !.stage = "checked",
                        !.once = checkName(pth.arg, FALSE),
                        !.twice = checkName(pth.arg, TRUE)]
  /\ UNCHANGED <<nodes, lists, arrs, last, nmut, ncopy>>

AlgebraNext == CommonAncestor \/ Ancestor \/ SameRoot \/ CheckName

AlgebraSpec == AlgebraInit /\ [][AlgebraNext]_vars

(***************************************************************************)
(* C21                                                                     *)
(***************************************************************************)
\* the segments of an absolute path: none for '/'
SegList(p) == IF p = <<Slash>> THEN <<>> ELSE Tail(Split(p))

\* the first k segments of every path of the list l are the same
SharedUpTo(l, k) ==
  \A i \in 1..Len(l) :
     /\ Len(SegList(l[i])) >= k
     /\ SubSeq(SegList(l[i]), 1, k) = SubSeq(SegList(l[1]), 1, k)

\* the path of the longest sequence of leading segments that the paths of
\* the list l share, '/' when there is none
LongestShared(l) ==
  IF l = <<>> THEN <<Slash>>
  ELSE LET k == CHOOSE h \in 0..Len(SegList(l[1])) :
                   SharedUpTo(l, h) /\ ~SharedUpTo(l, h + 1)
       IN IF k = 0 THEN <<Slash>>
          ELSE Join(<< <<>> >> \o SubSeq(SegList(l[1]), 1, k))

\* C21: getPathListCommonAncestor(pathlist) is the path of the longest
\* sequence of leading segments shared by all the paths of the list, and '/'
\* when the list is empty or the paths share no leading segment
C21_CommonAncestor ==
  pth.stage = "common" => pth.once = LongestShared(pth.arg)

(***************************************************************************)
(* C22                                                                     *)
(***************************************************************************)
\* the absolute path of a list of segments: '/' for no segment
PathOfSegs(segs) == IF segs = <<>> THEN <<Slash>> ELSE Join(<< <<>> >> \o segs)

\* a is the ancestor and l the leaf that C22 states for the path q and the
\* level N
AncestorAsStated(q, N, a, l) ==
  /\ N = 0 => a = q
  /\ (q = <<Slash>> /\ N = 1) => a = PNone
  /\ (q # <<Slash>> /\ N >= 1 /\ N <= Len(SegList(q))) =>
        a = PathOfSegs(SubSeq(SegList(q), 1, Len(SegList(q)) - N))
  /\ l = IF q = <<Slash>> THEN <<>> ELSE SegList(q)[Len(SegList(q))]

SegPrefix(s1, s2) == Len(s1) <= Len(s2) /\ SubSeq(s2, 1, Len(s1)) = s1

\* the first segment of the path, if any, is no root name
NoRootName(q) == q = <<Slash>> \/ SegList(q)[1] \notin RootNames

\* C23 as stated: hasSameRootPath(root, candidate) is True exactly when the
\* segments of root are a prefix of the segments of candidate, for every two
\* paths
C23_SegmentPrefixAnyPath ==
  pth.stage = "sameroot" =>
     pth.once = IF SegPrefix(SegList(pth.arg[1]), SegList(pth.arg[2]))
                THEN "True" ELSE "False"

\* C23 amended: the same, for two paths whose first segment is no root name
C23_SegmentPrefix ==
  (pth.stage = "sameroot" /\ NoRootName(pth.arg[1]) /\ NoRootName(pth.arg[2])) =>
     pth.once = IF SegPrefix(SegList(pth.arg[1]), SegList(pth.arg[2]))
                THEN "True" ELSE "False"

\* '/A/B' is a prefix of the string '/A/BC' and no prefix of the path
C23_Witness ==
  /\ pth.stage = "sameroot"
  /\ pth.arg = << <<Slash, "A", Slash, "B">>, <<Slash, "A", Slash, "B", "C">> >>
  /\ pth.once = "False"

(***************************************************************************)
(* C24                                                                     *)
(***************************************************************************)
\* the characters of the model's alphabet that a name may hold: the letters,
\* the digits, the punctuation without the slash, and the space
LegalChar(c) == c \in {"A", "1", "x", "B", "a", "s", "e", " ", Dot, "'", "\"", Backslash, Backquote}

\* the name is a string, not empty, of at most 32 legal characters, neither
\* '.' nor '..', and not made of spaces only
LegalName(nm) ==
  /\ nm # PNone
  /\ Len(nm) >= 1 /\ Len(nm) <= 32
  /\ \A i \in 1..Len(nm) : LegalChar(nm[i])
  /\ nm \notin {<<Dot>>, <<Dot, Dot>>}
  /\ \E i \in 1..Len(nm) : nm[i] # " "

\* the legal name has no space first or last, no two spaces in a row, and
\* no quote, backquote or backslash
StrictName(nm) ==
  /\ LegalName(nm)
  /\ nm[1] # " " /\ nm[Len(nm)] # " "
  /\ \A i \in 1..(Len(nm) - 1) : ~(nm[i] = " " /\ nm[i + 1] = " ")
  /\ \A i \in 1..Len(nm) : nm[i] \notin {"\"", "'", Backquote, Backslash}

C1Word  == [dtype |-> "S", shape |-> <<2>>,  fortran |-> FALSE, data |-> <<65, 66>>]
I4Int   == [dtype |-> "i", shape |-> <<1>>,  fortran |-> FALSE, data |-> <<7>>]
I8Int   == [dtype |-> "l", shape |-> <<1>>,  fortran |-> FALSE, data |-> <<7>>]
U4Int   == [dtype |-> "I", shape |-> <<1>>,  fortran |-> FALSE, data |-> <<7>>]
PyStr   == [dtype |-> "pystr", shape |-> <<>>, fortran |-> FALSE, data |-> <<65>>]
R8Row   == [dtype |-> "d", shape |-> <<1, 2>>, fortran |-> FALSE, data |-> <<1, 2>>]

ValueArgs == SetValueArgs \cup {R4Version, C1Word, I4Int, I8Int, U4Int, PyStr, R8Row}

ValueNext ==
  \/ \E k \in WideKinds, parent \in {0} \cup NodeIds, dienow \in BOOLEAN :
        NodeCreate(k, parent, dienow)
  \/ \E node \in NodeIds, a \in ValueArgs : SetValue(node, a)

ValueSpec == Init /\ [][ValueNext]_vars

(***************************************************************************)
(* C25                                                                     *)
(***************************************************************************)
\* the value is an array of characters, of 32 or 64-bit integers, or of 32
\* or 64-bit floats, as getValueType knows them
Recognized(a) == a # NoArray /\ a.dtype \in {"S", "i", "l", "f", "d"}

\* C25: setValue(node, value) stores the value in the node when its kind is
\* recognized and sets the value of the node to None otherwise; it returns
\* the node without raising, and the name, the children and the type of the
\* node, as every other node, stay as they were
C25_SetValueCoercion ==
  [][\A node \in NodeIds : \A a \in ValueArgs :
        SetValue(node, a) =>
           /\ last'.ret = node
           /\ IF Recognized(a)
              THEN nodes'[node].value # 0 /\ arrs'[nodes'[node].value] = a
              ELSE nodes'[node].value = 0
           /\ nodes'[node].name = nodes[node].name
           /\ nodes'[node].kids = nodes[node].kids
           /\ nodes'[node].type = nodes[node].type
           /\ lists' = lists
           /\ \A m \in NodeIds \ {node} : nodes'[m] = nodes[m]]_vars

\* setValue was given an array of unsigned integers for a node that is
\* always created with a value: the node has no value any more
C25_Witness ==
  /\ last.op = "setValue"
  /\ last.path = <<"I">>
  /\ nodes[last.node].name = NameB
  /\ nodes[last.node].value = 0

\* ---------------------------------------------------------------------------
\* C26: checkSameNode(a, b) is True whenever a and b are well-formed nodes
\* with the same name, the same type, the same number of children and the
\* same class of value (None or array): neither the children nor the elements
\* of the values are compared
SameHeader(a, b) ==
  /\ checkNode(a) /\ checkNode(b)
  /\ nodes[a].name = nodes[b].name
  /\ nodes[a].type = nodes[b].type
  /\ Len(Kids(a)) = Len(Kids(b))
  /\ SameValueClass(nodes[a].value, nodes[b].value)

C26_LazySameNode ==
  \A a \in NodeIds : \A b \in NodeIds :
     SameHeader(a, b) => checkSameNode(a, b)

\* the part of C26 on the children: two nodes of the same header and the same
\* value are the same node whatever their children are
C26_ChildrenNotParsed ==
  \A a \in NodeIds : \A b \in NodeIds :
     (SameHeader(a, b) /\ checkSameValue(a, b)) => checkSameNode(a, b)

\* ---------------------------------------------------------------------------
\* C27: nodeCreate with dienow False and a parent appends the new node as the
\* last child of the parent, keeps the previous children in their order,
\* touches no other children list and returns the node it stored, whether or
\* not the parent has a child of that name already
C27_CreateAppends ==
  [][\A k \in BuildKinds : \A parent \in NodeIds :
        NodeCreate(k, parent, FALSE) =>
           /\ last'.ret = Len(nodes) + 1
           /\ nodes'[last'.ret].name = k.name
           /\ nodes'[last'.ret].type = k.type
           /\ lists'[nodes'[last'.ret].kids] = <<>>
           /\ lists'[nodes'[parent].kids] = Append(Kids(parent), last'.ret)
           /\ \A m \in NodeIds : nodes'[m] = nodes[m]
           /\ \A m \in NodeIds \ {parent} :
                 lists'[nodes[m].kids] = lists[nodes[m].kids]]_vars

\* a node of a name of blanks was created as the second child of that name
C27_Witness ==
  /\ last.op = "nodeCreate" /\ last.tree # 0 /\ last.ret > 0
  /\ last.path = NameBlank
  /\ Len(Kids(last.tree)) = 2
  /\ Kids(last.tree)[2] = last.ret
  /\ nodes[Kids(last.tree)[1]].name = NameBlank

\* ---------------------------------------------------------------------------
\* the nodes of the tree that are neither z nor below z
Kept(tree, z) == Desc(tree) \ Desc(z)

\* nodeDelete(tree, z) took z and what is below z out of the tree and nothing
\* else: the nodes of the tree are the kept ones, the children lists of the
\* kept nodes are the previous ones without z, the list of getPathFullTree
\* is the previous list without the paths of z and of what is below z, and
\* the tree is returned
DeletedOnly(tree, z) ==
  /\ last'.ret = tree
  /\ Desc(tree)' = Kept(tree, z)
  /\ \A m \in Kept(tree, z) :
        Kids(m)' = SelectSeq(Kids(m), LAMBDA c : c # z)
  /\ PathsWith(getPathFullTree(tree, FALSE)',
               [n \in Kept(tree, z) \ {tree} |-> NamePath(tree, n)],
               Kept(tree, z) \ {tree})

\* C28: for every tree and every node z of it but its root, nodeDelete(tree, z)
\* removes the path of z and the paths of the descendants of z from
\* getPathFullTree(tree) and nothing else, whatever the siblings of z are,
\* and returns the tree; stated here for the trees with a CGNSTree_t root and
\* the nodes z that checkSameNode takes for the same node as themselves
C28_DeleteFrame ==
  [][\A tree \in NodeIds : \A z \in NodeIds :
        (/\ NodeDeleteNode(tree, z)
         /\ RootedTree(tree)
         /\ z \in Desc(tree) \ {tree}
         /\ checkSameNode(z, z))
           => DeletedOnly(tree, z)]_vars

\* ---------------------------------------------------------------------------
\* every path of the list l resolves on the tree r, through getNodeByPath, to
\* a node of a type of the set ts
ResolveTyped(r, l, ts) ==
  \A i \in 1..Len(l) :
     /\ getNodeByPath(r, l[i]) # 0
     /\ nodes[getNodeByPath(r, l[i])].type \in ts

\* the paths of the two type queries on the tree r resolve to nodes of the
\* type asked for: a type of the set, the last type of the list
QueriesResolve(r) ==
  /\ \A ts \in TypeSetArgs :
        IsPathList(getAllNodesByTypeSet(r, ts)) =>
           ResolveTyped(r, getAllNodesByTypeSet(r, ts), ts)
  /\ \A tl \in TypeListArgs :
        IsPathList(getAllNodesByTypeList(r, tl)) =>
           ResolveTyped(r, getAllNodesByTypeList(r, tl), {tl[Len(tl)]})

\* C29 as stated: every path returned by getAllNodesByTypeSet and by
\* getAllNodesByTypeList resolves through getNodeByPath(tree, path) to a node
\* that is not None and has a type of the query, for a CGNSTree_t root and for
\* a sub-tree, also when siblings share a name
C29_QueryPathsResolveAny ==
  \A r \in NodeIds : QueriesResolve(r)

\* the names of the nodes of r pass checkName
LegalNames(r) == \A m \in Desc(r) : checkName(nodes[m].name, FALSE)

\* a tree of nodes where a path names at most one node and the first segment
\* of a path is not taken for the root: no two siblings of the same name, and
\* no child named CGNSTree under a CGNSTree_t top node
Resolvable(r) ==
  /\ IsTree(r)
  /\ DistinctSiblings(r)
  /\ nodes[r].type = CGNSTree_ts =>
        \A c \in ChildSet(r) : nodes[c].name # CGNSTree_s

\* C29 amended: the paths resolve to nodes of the type asked for on the trees
\* without two siblings of the same name, whose nodes have names that
\* checkName accepts, and without a child named CGNSTree under a CGNSTree_t
\* top node
C29_QueryPathsResolve ==
  \A r \in NodeIds :
     (Resolvable(r) /\ LegalNames(r)) => QueriesResolve(r)

\* a sub-tree has a Zone_t child that both queries find, with the name of the
\* sub-tree first in the path, and the path resolves to the child
C29_Witness ==
  \E r \in NodeIds : \E n \in NodeIds :
     /\ Resolvable(r) /\ LegalNames(r)
     /\ nodes[r].type = CGNSBase_ts
     /\ n \in ChildSet(r) /\ nodes[n].type = Zone_ts
     /\ getAllNodesByTypeSet(r, {Zone_ts}) = <<QueryPath(r, n)>>
     /\ getAllNodesByTypeList(r, <<CGNSBase_ts, Zone_ts>>) = <<QueryPath(r, n)>>
     /\ getNodeByPath(r, QueryPath(r, n)) = n

\* ---------------------------------------------------------------------------
\* the recursive traversals from r come back: none of them goes deeper than
\* there are nodes, which it does only along a cycle and then without end
Completes(r) ==
  /\ getAllPaths(r) # LRec
  /\ \A n \in NodeIds : getPathFromNode(r, n) # RecErr
  /\ \A ts \in TypeSets : getAllNodesByTypeSet(r, ts) # LRec

\* the suffix loop of checkUniqueChildName ends on a name no child of r has
SuffixFound(r) ==
  \A k \in NodeKinds :
     checkDuplicatedName(r, checkUniqueChildName(r, k.name, FALSE))

\* C30: on every tree that nodeCreate, setChild, nodeCopy and nodeDelete can
\* build, getAllPaths, getPathFromNode and getAllNodesByTypeSet run to
\* completion, and the suffix loop of checkUniqueChildName terminates
C30_TraversalsComplete ==
  \A r \in NodeIds : Completes(r) /\ SuffixFound(r)

\* no node below r is below itself
Acyclic(r) == \A m \in Desc(r) : m \notin UNION {Desc(k) : k \in ChildSet(m)}

\* what holds of C30: the traversals complete from every node that no cycle
\* is below, and the suffix loop always ends
C30_AcyclicComplete ==
  \A r \in NodeIds : (Acyclic(r) => Completes(r)) /\ SuffixFound(r)

====
